---- MODULE Spec2Model ----
(***************************************************************************)
(* A model of the streaming ZIP reader (src/src/zip/mod.rs) and of the     *)
(* magic-number sniffer (src/src/magic.rs) of xrep.                        *)
(*                                                                         *)
(* Bytes are the integers 0..255.  A multi-byte integer read from a stream *)
(* with read_uN::<LittleEndian> is kept as the sequence of its bytes,      *)
(* least significant first (a "word"): the values the code compares reach  *)
(* 0xFFFFFFFF and beyond, which TLC's integers cannot hold, while        *)
(* equality of two words of one width is equality of the integers.         *)
(***************************************************************************)
EXTENDS Integers, Sequences, FiniteSets, TLC

Min(a, b) == IF a <= b THEN a ELSE b

\* The n bytes of s that follow offset p (s[p+1] .. s[p+n]).
Slice(s, p, n) == SubSeq(s, p + 1, p + n)

\* s without its first n bytes.
Drop(s, n) == SubSeq(s, n + 1, Len(s))

\* The little-endian word of a u16 / u32 value n (n below 2^31).
U16(n) == <<n % 256, (n \div 256) % 256>>
U32(n) == <<n % 256, (n \div 256) % 256, (n \div 65536) % 256, (n \div 16777216) % 256>>

\* u32 -> u64 (`.into()`): the high four bytes are zero.
Widen(w) == w \o <<0, 0, 0, 0>>

\* The u64 word of a count n (n below 2^31).
U64(n) == Widen(U32(n))

\* u32::max_value().into()
U32Max == Widen(<<255, 255, 255, 255>>)

\* The value of a two-byte little-endian word.
Val16(w) == w[1] + 256 * w[2]

\* A faulty variant of Clamp: no limit is applied.
ClampNone(w, n) == n

\* min(value of word w, n) for a count n below 65536: a word with a nonzero
\* byte above the second is at least 65536.
Clamp(w, n) ==
    IF \E i \in 3..Len(w) : w[i] # 0 THEN n ELSE Min(Val16(w), n)

\* flags & (1 << b) != 0
Bit(flags, b) == (flags \div (2 ^ b)) % 2 = 1

(***************************************************************************)
(* CRC-32/IEEE (crc::crc32::checksum_ieee), on 32-bit registers kept as    *)
(* sequences of bits, least significant first.                             *)
(***************************************************************************)
Bits8(b) == [i \in 1..8 |-> (b \div (2 ^ (i - 1))) % 2]

BitsOfWord(w) == Bits8(w[1]) \o Bits8(w[2]) \o Bits8(w[3]) \o Bits8(w[4])

ByteOfBits(r, k) ==
    r[k + 1] + 2 * r[k + 2] + 4 * r[k + 3] + 8 * r[k + 4]
    + 16 * r[k + 5] + 32 * r[k + 6] + 64 * r[k + 7] + 128 * r[k + 8]

WordOfBits(r) == <<ByteOfBits(r, 0), ByteOfBits(r, 8), ByteOfBits(r, 16), ByteOfBits(r, 24)>>

\* (the concatenation makes TLC build the sequence at once)
Xor(a, b) == <<>> \o [i \in 1..Len(a) |-> (a[i] + b[i]) % 2]

\* The reflected polynomial 0xEDB88320.
CrcPoly == BitsOfWord(<<32, 131, 184, 237>>)

CrcShift(r) ==
    LET shifted == Tail(r) \o <<0>>
    IN  IF r[1] = 1 THEN Xor(shifted, CrcPoly) ELSE shifted

CrcByte(r, b) ==
    LET x == Xor(r, Bits8(b) \o [i \in 1..24 |-> 0])
    IN  CrcShift(CrcShift(CrcShift(CrcShift(CrcShift(CrcShift(CrcShift(CrcShift(x))))))))

RECURSIVE CrcFold(_, _)
CrcFold(r, s) == IF s = <<>> THEN r ELSE CrcFold(CrcByte(r, Head(s)), Tail(s))

\* A faulty variant of checksum_ieee: the CRC of every name is zero.
checksum_none(s) == <<0, 0, 0, 0>>

\* checksum_ieee(name_buf), as a u32 word.
checksum_ieee(s) ==
    WordOfBits(Xor(CrcFold([i \in 1..32 |-> 1], s), [i \in 1..32 |-> 1]))

(***************************************************************************)
(* Extra fields.                                                           *)
(***************************************************************************)
\* Extra::default()
NoExtra ==
    [zip64 |-> [some |-> FALSE, uncompressed |-> <<>>, compressed |-> <<>>],
     unicode_path |-> [some |-> FALSE, bytes |-> <<>>]]

\* The tags parse_extra matches on.
TagZip64 == 1
TagUnicodePath == 28789

\* A faulty variant of Zip64Of: the two sizes change places.
Zip64Swapped(payload) ==
    [some |-> TRUE, uncompressed |-> Slice(payload, 8, 8), compressed |-> Slice(payload, 0, 8)]

\* extra.zip64 = Some(Zip64Extra { uncompressed, compressed }), both read
\* from the head of the record's payload.
Zip64Of(payload) ==
    [some |-> TRUE, uncompressed |-> Slice(payload, 0, 8), compressed |-> Slice(payload, 8, 8)]

\* parse_extra: the extras after the records of buf, and how the parse ended:
\* "ok", "eof" (an UnexpectedEof from a short read) or "panic" (the slice
\* &buf[..data.limit()] reaching past the end of buf).
RECURSIVE parse_extra(_, _, _)
parse_extra(buf, name_buf, extra) ==
    IF buf = <<>> THEN [extra |-> extra, st |-> "ok"]
    ELSE IF Len(buf) < 4 THEN [extra |-> extra, st |-> "eof"]
    ELSE
      LET tag   == Val16(Slice(buf, 0, 2))
          size  == Val16(Slice(buf, 2, 2))
          rest  == Drop(buf, 4)
          avail == Min(size, Len(rest))        \* what data = take(size) can yield
          next  == Drop(rest, avail)           \* buf after drain(data)
      IN  IF tag = TagZip64 THEN
            IF avail < 16 THEN [extra |-> extra, st |-> "eof"]
            ELSE parse_extra(next, name_buf, [extra EXCEPT !.zip64 = Zip64Of(rest)])
          ELSE IF tag = TagUnicodePath THEN
            IF avail < 1 THEN [extra |-> extra, st |-> "eof"]
            ELSE IF rest[1] # 1 THEN parse_extra(next, name_buf, extra)
            ELSE IF avail < 5 THEN [extra |-> extra, st |-> "eof"]
            ELSE IF Slice(rest, 1, 4) # checksum_ieee(name_buf)
                 THEN parse_extra(next, name_buf, extra)
            ELSE IF size > Len(rest) THEN [extra |-> extra, st |-> "panic"]
            ELSE parse_extra(next, name_buf,
                   [extra EXCEPT !.unicode_path =
                       [some |-> TRUE, bytes |-> Slice(rest, 5, size - 5)]])
          ELSE parse_extra(next, name_buf, extra)

(***************************************************************************)
(* Entry names.  A decoded name is the sequence of its characters, each    *)
(* the number of its Unicode scalar value.                                 *)
(***************************************************************************)
\* U+FFFD REPLACEMENT CHARACTER
Replacement == 65533

\* The continuation bytes that may follow the lead byte b of a UTF-8
\* sequence as its second byte.
SecondBytes(b) ==
    CASE b = 224 -> 160..191
      [] b = 237 -> 128..159
      [] b = 240 -> 144..191
      [] b = 244 -> 128..143
      [] OTHER -> 128..191

\* String::from_utf8_lossy: well-formed sequences decode to their scalar
\* value, each maximal ill-formed run of a sequence to one U+FFFD.
RECURSIVE Utf8Lossy(_)
Utf8Lossy(s) ==
    IF s = <<>> THEN <<>>
    ELSE
      LET b == s[1]
          n == IF b < 128 THEN 1
               ELSE IF b \in 194..223 THEN 2
               ELSE IF b \in 224..239 THEN 3
               ELSE IF b \in 240..244 THEN 4
               ELSE 0
          ok2 == Len(s) >= 2 /\ s[2] \in SecondBytes(b)
          ok3 == ok2 /\ Len(s) >= 3 /\ s[3] \in 128..191
          ok4 == ok3 /\ Len(s) >= 4 /\ s[4] \in 128..191
      IN  IF n = 1 THEN <<b>> \o Utf8Lossy(Drop(s, 1))
          ELSE IF n = 2 /\ ok2
            THEN <<(b - 192) * 64 + (s[2] - 128)>> \o Utf8Lossy(Drop(s, 2))
          ELSE IF n = 3 /\ ok3
            THEN <<(b - 224) * 4096 + (s[2] - 128) * 64 + (s[3] - 128)>> \o Utf8Lossy(Drop(s, 3))
          ELSE IF n = 4 /\ ok4
            THEN <<(b - 240) * 262144 + (s[2] - 128) * 4096 + (s[3] - 128) * 64 + (s[4] - 128)>>
                 \o Utf8Lossy(Drop(s, 4))
          ELSE IF n = 4 /\ ok3 THEN <<Replacement>> \o Utf8Lossy(Drop(s, 3))
          ELSE IF n >= 3 /\ ok2 THEN <<Replacement>> \o Utf8Lossy(Drop(s, 2))
          ELSE <<Replacement>> \o Utf8Lossy(Drop(s, 1))

\* The upper half of code page 437: the character of byte 128 + i is
\* Cp437High[i + 1].
Cp437High ==
    <<
       199, 252, 233, 226, 228, 224, 229, 231, 234, 235, 232, 239, 238, 236, 196, 197,
       201, 230, 198, 244, 246, 242, 251, 249, 255, 214, 220, 162, 163, 165, 8359, 402,
       225, 237, 243, 250, 241, 209, 170, 186, 191, 8976, 172, 189, 188, 161, 171, 187,
       9617, 9618, 9619, 9474, 9508, 9569, 9570, 9558, 9557, 9571, 9553, 9559, 9565, 9564, 9563, 9488,
       9492, 9524, 9516, 9500, 9472, 9532, 9566, 9567, 9562, 9556, 9577, 9574, 9568, 9552, 9580, 9575,
       9576, 9572, 9573, 9561, 9560, 9554, 9555, 9579, 9578, 9496, 9484, 9608, 9604, 9612, 9616, 9600,
       945, 223, 915, 960, 931, 963, 181, 964, 934, 920, 937, 948, 8734, 966, 949, 8745,
       8801, 177, 8805, 8804, 8992, 8993, 247, 8776, 176, 8729, 183, 8730, 8319, 178, 9632, 160
    >>

\* cp437::to_char
to_char(b) == IF b < 128 THEN b ELSE Cp437High[b - 127]

\* A faulty variant of NameOf: a Unicode path comes before the flag.
NameOfPathFirst(flags, name_buf, unicode_path) ==
    IF unicode_path.some THEN Utf8Lossy(unicode_path.bytes)
    ELSE IF Bit(flags, 11) THEN Utf8Lossy(name_buf)
    ELSE <<>> \o [i \in 1..Len(name_buf) |-> to_char(name_buf[i])]

\* let name = if flags & (1 << 11) != 0 { .. } else if let Some(unicode_path) .. else ..
NameOf(flags, name_buf, unicode_path) ==
    IF Bit(flags, 11) THEN Utf8Lossy(name_buf)
    ELSE IF unicode_path.some THEN Utf8Lossy(unicode_path.bytes)
    ELSE <<>> \o [i \in 1..Len(name_buf) |-> to_char(name_buf[i])]

(***************************************************************************)
(* The raw-deflate decoder (flate2::bufread::DeflateDecoder), on the       *)
(* streams made of stored blocks: a header byte whose bit 0 is BFINAL and  *)
(* bits 1-2 BTYPE (00 stored, 11 reserved), LEN and NLEN = ~LEN as u16,    *)
(* then LEN literal bytes.                                                 *)
(*   out    the bytes decoded before the decoder stops                     *)
(*   need   need[j]: the input consumed once out[j] has been produced      *)
(*   used   the input consumed when the decoder stops                      *)
(*   status "end" (final block complete), "eof" (input exhausted first),   *)
(*          "corrupt" (reserved block type or LEN/NLEN mismatch) or        *)
(*          "huffman" (a compressed block: outside the modelled streams)   *)
(***************************************************************************)
RECURSIVE InflateFrom(_, _, _, _)
InflateFrom(d, p, out, need) ==
    IF p >= Len(d) THEN [status |-> "eof", out |-> out, need |-> need, used |-> Len(d)]
    ELSE
      LET h      == d[p + 1]
          bfinal == h % 2
          btype  == (h \div 2) % 4
      IN  IF btype = 3 THEN [status |-> "corrupt", out |-> out, need |-> need, used |-> p + 1]
          ELSE IF btype # 0 THEN [status |-> "huffman", out |-> out, need |-> need, used |-> p + 1]
          ELSE IF p + 5 > Len(d) THEN [status |-> "eof", out |-> out, need |-> need, used |-> Len(d)]
          ELSE
            LET len  == Val16(Slice(d, p + 1, 2))
                nlen == Val16(Slice(d, p + 3, 2))
                got  == Min(len, Len(d) - (p + 5))
                out2 == out \o Slice(d, p + 5, got)
                nd2  == need \o [j \in 1..got |-> p + 5 + j]
            IN  IF len + nlen # 65535
                  THEN [status |-> "corrupt", out |-> out, need |-> need, used |-> p + 5]
                ELSE IF got < len
                  THEN [status |-> "eof", out |-> out2, need |-> nd2, used |-> Len(d)]
                ELSE IF bfinal = 1
                  THEN [status |-> "end", out |-> out2, need |-> nd2, used |-> p + 5 + len]
                ELSE InflateFrom(d, p + 5 + len, out2, nd2)

Inflate(d) == InflateFrom(d, 0, <<>>, <<>>)

(***************************************************************************)
(* for_each_entry: record signatures and the local file header.            *)
(***************************************************************************)
\* Faulty variants of SigHalt: one that does not know the extra-data record,
\* one that takes the data descriptor's signature for a central directory.
SigHaltFour == { U32(33639248), U32(101010256), U32(101075792), U32(117853008) }
SigHaltWide ==
    { U32(33639248), U32(101010256), U32(101075792), U32(117853008), U32(134630224),
      U32(134695760) }

SigLocal == U32(67324752)                     \* 0x04034b50
SigHalt ==
    { U32(33639248),                          \* 0x02014b50 central directory
      U32(101010256),                         \* 0x06054b50
      U32(101075792),                         \* 0x06064b50 zip64 central directory
      U32(117853008),                         \* 0x07064b50
      U32(134630224) }                        \* 0x08064b50 extra data
SigDescriptor == U32(134695760)               \* 0x08074b50

\* The errors of the Error enum that carry no I/O error, and Ok(Method).
Good(m) == [ok |-> TRUE, kind |-> m, arg |-> 0]
Bad(e, a) == [ok |-> FALSE, kind |-> e, arg |-> a]

\* A faulty variant of MethodOf: it refuses version 45 too.
MethodOfFrom45(version, flags, method) ==
    IF version >= 45 THEN Bad("NewerVersionNeeded", version)
    ELSE IF Bit(flags, 0) THEN Bad("Encrypted", 0)
    ELSE IF Bit(flags, 5) THEN Bad("Patched", 0)
    ELSE IF method = 0 THEN Good("Store")
    ELSE IF method = 8 THEN Good("Deflate")
    ELSE Bad("UnknownMethod", method)

\* let method = if version > 45 { .. } else if .. (the entry result).
MethodOf(version, flags, method) ==
    IF version > 45 THEN Bad("NewerVersionNeeded", version)
    ELSE IF Bit(flags, 0) THEN Bad("Encrypted", 0)
    ELSE IF Bit(flags, 5) THEN Bad("Patched", 0)
    ELSE IF method = 0 THEN Good("Store")
    ELSE IF method = 8 THEN Good("Deflate")
    ELSE Bad("UnknownMethod", method)

\* A faulty variant of Reconcile: a ZIP64 record overrides any size.
ReconcileAlways(size32, zip64some, size64) ==
    IF zip64some THEN size64 ELSE Widen(size32)

\* if let Some(ref zip64) = extra.zip64 { if size == u32::max_value() .. }
Reconcile(size32, zip64some, size64) ==
    IF zip64some /\ Widen(size32) = U32Max THEN size64 ELSE Widen(size32)

\* The offsets, from the signature, at which the reads of the fixed header begin.
HeaderReads == {0, 4, 6, 8, 10, 12, 14, 18, 22, 26, 28, 30}

\* Where the read that fails for want of bytes begins, with n bytes at hand.
FailingRead(n, reads) ==
    CHOOSE o \in reads : o <= n /\ \A q \in reads : q <= n => q <= o

\* One turn of the loop up to the callback, on the bytes r at the cursor:
\*   "eof"     a read_uN / read_exact met the end of r (at offset `at`)
\*   "halt"    a central-directory signature: break
\*   "unknown" any other signature that is not a local file header
\*   "panic"   parse_extra panicked
\*   "local"   a header, its name and its extras were read: the callback is next
NoEntry ==
    [version |-> 0, flags |-> 0, method16 |-> 0, method |-> Good("Store"), compressed |-> U64(0),
     uncompressed |-> U64(0), name_buf |-> <<>>, extra |-> NoExtra, len |-> 0,
     name |-> <<>>, comp32 |-> U32(0), uncomp32 |-> U32(0), extra_buf |-> <<>>]

\* A faulty variant of ReadHeader: a local file header is taken for read as
\* soon as its signature is, and nothing after the signature is consumed.
ReadHeaderSigOnly(r) ==
    IF Len(r) < 4 THEN [kind |-> "eof", at |-> 0, sig |-> <<>>, e |-> NoEntry]
    ELSE
      LET sig == Slice(r, 0, 4)
      IN  IF sig \in SigHalt THEN [kind |-> "halt", at |-> 4, sig |-> sig, e |-> NoEntry]
          ELSE IF sig # SigLocal THEN [kind |-> "unknown", at |-> 4, sig |-> sig, e |-> NoEntry]
          ELSE [kind |-> "local", at |-> 4, sig |-> sig, e |-> NoEntry]

ReadHeader(r) ==
    IF Len(r) < 4 THEN [kind |-> "eof", at |-> 0, sig |-> <<>>, e |-> NoEntry]
    ELSE
      LET sig == Slice(r, 0, 4)
      IN  IF sig \in SigHalt THEN [kind |-> "halt", at |-> 4, sig |-> sig, e |-> NoEntry]
          ELSE IF sig # SigLocal THEN [kind |-> "unknown", at |-> 4, sig |-> sig, e |-> NoEntry]
          ELSE IF Len(r) < 30
            THEN [kind |-> "eof", at |-> FailingRead(Len(r), HeaderReads), sig |-> sig, e |-> NoEntry]
          ELSE
            LET version   == Val16(Slice(r, 4, 2))
                flags     == Val16(Slice(r, 6, 2))
                method    == Val16(Slice(r, 8, 2))
                comp32    == Slice(r, 18, 4)
                uncomp32  == Slice(r, 22, 4)
                name_len  == Val16(Slice(r, 26, 2))
                extra_len == Val16(Slice(r, 28, 2))
            IN  IF Len(r) < 30 + name_len
                  THEN [kind |-> "eof", at |-> 30, sig |-> sig, e |-> NoEntry]
                ELSE IF Len(r) < 30 + name_len + extra_len
                  THEN [kind |-> "eof", at |-> 30 + name_len, sig |-> sig, e |-> NoEntry]
                ELSE
                  LET name_buf == Slice(r, 30, name_len)
                      extra_buf == Slice(r, 30 + name_len, extra_len)
                      parsed == parse_extra(extra_buf, name_buf, NoExtra)
                      z  == parsed.extra.zip64
                  IN  [kind |-> IF parsed.st = "panic" THEN "panic" ELSE "local",
                       at |-> 30 + name_len + extra_len,
                       sig |-> sig,
                       e |-> [version |-> version, flags |-> flags, method16 |-> method,
                              method |-> MethodOf(version, flags, method),
                              compressed |-> Reconcile(comp32, z.some, z.compressed),
                              uncompressed |-> Reconcile(uncomp32, z.some, z.uncompressed),
                              name_buf |-> name_buf, extra |-> parsed.extra,
                              len |-> 30 + name_len + extra_len,
                              name |-> NameOf(flags, name_buf, parsed.extra.unicode_path),
                              comp32 |-> comp32, uncomp32 |-> uncomp32,
                              extra_buf |-> extra_buf]]

\* A faulty variant of ReadDescriptor: the second size of the descriptor is
\* taken for the compressed size.
ReadDescriptorSwapped(r, zip64none) ==
    IF Len(r) < 4 THEN [st |-> "eof", at |-> 0, compressed |-> U64(0), len |-> 0, bytes |-> <<>>]
    ELSE
      LET o == IF Slice(r, 0, 4) = SigDescriptor THEN 8 ELSE 4
          w == IF zip64none THEN 4 ELSE 8
      IN  IF Len(r) < o + 2 * w
            THEN [st |-> "eof", at |-> FailingRead(Len(r), {0, 4, o, o + w}),
                  compressed |-> U64(0), len |-> 0, bytes |-> <<>>]
          ELSE [st |-> "ok", at |-> o + 2 * w,
                compressed |-> IF zip64none THEN Widen(Slice(r, o + w, 4)) ELSE Slice(r, o + w, 8),
                len |-> o + 2 * w, bytes |-> Slice(r, 0, o + 2 * w)]

\* A faulty variant of ReadDescriptor: the sizes are read as u32 whatever
\* the extras hold.
ReadDescriptorNarrow(r, zip64none) ==
    IF Len(r) < 4 THEN [st |-> "eof", at |-> 0, compressed |-> U64(0), len |-> 0, bytes |-> <<>>]
    ELSE
      LET o == IF Slice(r, 0, 4) = SigDescriptor THEN 8 ELSE 4
      IN  IF Len(r) < o + 8
            THEN [st |-> "eof", at |-> FailingRead(Len(r), {0, 4, o, o + 4}),
                  compressed |-> U64(0), len |-> 0, bytes |-> <<>>]
          ELSE [st |-> "ok", at |-> o + 8, compressed |-> Widen(Slice(r, o, 4)),
                len |-> o + 8, bytes |-> Slice(r, 0, o + 8)]

\* The data descriptor after a streaming entry, on the bytes r at the cursor;
\* bytes: what was read of r for it.
ReadDescriptor(r, zip64none) ==
    IF Len(r) < 4 THEN [st |-> "eof", at |-> 0, compressed |-> U64(0), len |-> 0, bytes |-> <<>>]
    ELSE
      LET o == IF Slice(r, 0, 4) = SigDescriptor THEN 8 ELSE 4   \* past the crc32
          w == IF zip64none THEN 4 ELSE 8
      IN  IF Len(r) < o + 2 * w
            THEN [st |-> "eof", at |-> FailingRead(Len(r), {0, 4, o, o + w}),
                  compressed |-> U64(0), len |-> 0, bytes |-> <<>>]
          ELSE [st |-> "ok", at |-> o + 2 * w,
                compressed |-> IF zip64none THEN Widen(Slice(r, o, 4)) ELSE Slice(r, o, 8),
                len |-> o + 2 * w, bytes |-> Slice(r, 0, o + 2 * w)]

(***************************************************************************)
(* The input streams.  The underlying reader hands over its bytes chunk by *)
(* chunk, each chunk when the reader would otherwise wait for bytes; the   *)
(* chunks are local file records as a ZIP writer lays them out, record     *)
(* signatures, and damaged pieces.                                         *)
(***************************************************************************)
\* signature, version, flags, method, time, date, crc32, sizes, lengths, name, extras
Header(version, flags, method, comp32, name, extra) ==
    SigLocal \o U16(version) \o U16(flags) \o U16(method) \o U16(0) \o U16(0)
    \o U32(0) \o comp32 \o U32(0) \o U16(Len(name)) \o U16(Len(extra)) \o name \o extra

\* A deflate stored block holding `data`.
StoredBlock(final, data) ==
    <<final>> \o U16(Len(data)) \o U16(65535 - Len(data)) \o data

Zip64Record(uncompressed, compressed) ==
    U16(TagZip64) \o U16(16) \o U64(uncompressed) \o U64(compressed)

Payload == <<72, 105>>
NameA == <<97>>

Records ==
    { \* stored and deflated entries with known sizes
      Header(20, 0, 0, U32(2), NameA, <<>>) \o Payload,
      Header(20, 0, 8, U32(8), NameA, <<>>) \o StoredBlock(1, Payload) \o <<0>>,
      \* an entry with a per-entry error (method 9)
      Header(20, 0, 9, U32(2), NameA, <<>>) \o Payload,
      \* a stored entry whose compressed size is one more than its body
      Header(20, 0, 0, U32(3), NameA, <<>>) \o Payload,
      \* streaming deflate entries: descriptor with and without its signature,
      \* with a ZIP64 record, and with a wrong compressed size
      Header(20, 8, 8, U32(0), NameA, <<>>) \o StoredBlock(1, Payload)
          \o SigDescriptor \o U32(7) \o U32(7) \o U32(2),
      Header(20, 8, 8, U32(0), NameA, <<>>) \o StoredBlock(0, <<72>>) \o StoredBlock(1, <<105>>)
          \o U32(7) \o U32(12) \o U32(2),
      Header(45, 8, 8, U32(0), NameA, Zip64Record(0, 0)) \o StoredBlock(1, Payload)
          \o SigDescriptor \o U32(7) \o U64(7) \o U64(2),
      Header(20, 8, 8, U32(0), NameA, <<>>) \o StoredBlock(1, Payload)
          \o SigDescriptor \o U32(7) \o U32(6) \o U32(2),
      Header(45, 8, 8, U32(0), NameA, Zip64Record(0, 0)) \o StoredBlock(1, Payload)
          \o U32(9) \o U64(7) \o U64(2),
      \* streaming entries that are stored, or carry a per-entry error
      Header(20, 8, 0, U32(0), NameA, <<>>) \o Payload,
      Header(20, 9, 8, U32(0), NameA, <<>>) \o Payload,
      \* streaming deflate entries with a reserved block type, and cut short
      Header(20, 8, 8, U32(0), NameA, <<>>) \o <<7>>,
      Header(20, 8, 8, U32(0), NameA, <<>>) \o <<1, 40, 0, 215, 255, 72>> }

\* Record signatures: the five that end the iteration, four that are no
\* record's (among them the descriptor's and the local one byte-swapped),
\* and pieces cut short.
Pieces ==
    { <<80, 75, 1, 2>>, <<80, 75, 5, 6>>, <<80, 75, 6, 6>>, <<80, 75, 6, 7>>, <<80, 75, 6, 8>>,
      <<0, 0, 0, 0>>, <<81, 75, 3, 4>>, <<4, 3, 75, 80>>, <<80, 75, 7, 8>>,
      <<80, 75>>,
           Slice(Header(20, 0, 0, U32(2), NameA, <<>>), 0, 17) }

\* One entry for each version, flag and method combination the entry result
\* depends on, with and without a data descriptor; the body is a deflate
\* stream, followed by its descriptor.
HeaderRecords ==
    { Header(v, f0 + 8 * f3 + 32 * f5, m, U32(7), NameA, <<>>) \o StoredBlock(1, Payload)
          \o (IF f3 = 1 THEN SigDescriptor \o U32(7) \o U32(7) \o U32(2) ELSE <<>>) :
        v \in {20, 45, 46}, f0 \in {0, 1}, f3 \in {0, 1}, f5 \in {0, 1}, m \in {0, 8, 9} }

\* tag u16, size u16, payload
Field(tag, payload) == U16(tag) \o U16(Len(payload)) \o payload

\* version u8, name_crc32 u32, the name in UTF-8
UnicodeRecord(version, crc, path) == Field(TagUnicodePath, <<version>> \o crc \o path)

NameB == <<130, 97>>

\* The header names parse_extra is given.
ParseNames == {NameA, NameB}

\* The records: ZIP64 with 16 payload bytes, with 18 and with 3; Unicode
\* path carrying the CRC of NameA in version 1 (two paths) and in version 2,
\* and one of version 1 whose payload ends after the version byte; a record
\* of another tag (0x5455).
Fields ==
    { Zip64Record(5, 2),
      Field(TagZip64, U64(7) \o U64(3) \o <<9, 9>>),
      Field(TagZip64, <<1, 2, 3>>),
      UnicodeRecord(1, checksum_ieee(NameA), <<98>>),
      UnicodeRecord(1, checksum_ieee(NameA), <<99, 195, 169>>),
      UnicodeRecord(2, checksum_ieee(NameA), <<98>>),
      Field(TagUnicodePath, <<1>>),
      Field(21589, <<1, 2, 3>>) }

\* How many records, whole or cut short, an extras slice holds.
MaxFields == 2

RECURSIVE Flatten(_)
Flatten(recs) == IF recs = <<>> THEN <<>> ELSE Head(recs) \o Flatten(Tail(recs))

\* The proper prefixes of the records, the empty one included.
CutFields == UNION { {SubSeq(f, 1, n) : n \in 0..(Len(f) - 1)} : f \in Fields }

\* A local file header with both sizes given.
Header2(version, flags, method, comp32, uncomp32, name, extra) ==
    SigLocal \o U16(version) \o U16(flags) \o U16(method) \o U16(0) \o U16(0)
    \o U32(0) \o comp32 \o uncomp32 \o U16(Len(name)) \o U16(Len(extra)) \o name \o extra

\* A Unicode-path record that is valid for the header name `name`.
PathFor(name) == UnicodeRecord(1, checksum_ieee(name), <<99, 195, 169>>)

\* Stored entries whose extras end inside a record, after no record, after
\* a ZIP64 record or after a valid Unicode-path record.
TruncRecords ==
    { Header2(20, 0, 0, U32(2), U32(2), NameA, whole \o cut) \o Payload :
        whole \in {<<>>, Zip64Record(5, 2), PathFor(NameA)}, cut \in CutFields \ {<<>>} }

\* Entries over the language-encoding flag (bit 11), header names that are
\* ASCII, CP437, UTF-8 and neither, and extras without and with a Unicode
\* path (valid, valid for NameA only and not UTF-8, after a ZIP64 record);
\* some of them streaming.
NameExtras(n) ==
    << <<>>, PathFor(n), UnicodeRecord(1, checksum_ieee(NameA), <<255, 98>>),
       Zip64Record(5, 2) \o PathFor(n) >>

NameRecords ==
    { Header2(20, f, 0, U32(2), U32(2), n, NameExtras(n)[i]) \o Payload :
        f \in {0, 2048}, n \in {NameA, NameB, <<195, 169>>, <<97, 255>>}, i \in 1..4 }
    \cup
    { Header2(20, f + 8, 8, U32(0), U32(0), NameB, x) \o StoredBlock(1, Payload)
          \o SigDescriptor \o U32(7) \o U32(7) \o U32(2) :
        f \in {0, 2048}, x \in {<<>>, PathFor(NameB)} }

\* Stored entries with three bytes after the extras, over sizes in the
\* header that are 2 or 0xFFFFFFFF and extras without and with a ZIP64 record.
SizeRecords ==
    { Header2(45, 0, 0, c, u, NameA, x) \o Payload \o <<33>> :
        c \in {U32(2), <<255, 255, 255, 255>>}, u \in {U32(2), <<255, 255, 255, 255>>},
        x \in {<<>>, Zip64Record(5, 3), Field(21589, <<1, 2, 3>>) \o Zip64Record(5, 3)} }

ExtraRecords == TruncRecords \cup NameRecords \cup SizeRecords

\* The chunks the underlying reader may supply after n others.
Supply(family, n) ==
    IF family = "records" THEN Records \cup Pieces
    ELSE IF n = 0 THEN (IF family = "extras" THEN ExtraRecords ELSE HeaderRecords)
    ELSE {<<80, 75, 1, 2>>, <<0, 0, 0, 0>>}

\* How many chunks the underlying reader supplies before its end of file.
MaxChunks == 2

\* A callback reads at most MaxRead bytes from its handle, or all of them.
MaxRead == 3

\* The io::Errors a callback may return.
CallbackErrors == {"NotFound", "Other"}

\* What a callback returns: Ok(Action) or Err(io::Error).
Continue == [ok |-> TRUE, v |-> "Continue"]
Stop == [ok |-> TRUE, v |-> "Stop"]

Returns == {Continue, Stop} \cup { [ok |-> FALSE, v |-> e] : e \in CallbackErrors }

(***************************************************************************)
(* for_each_entry as a state machine.                                      *)
(***************************************************************************)
VARIABLES
    family,   \* which input streams are explored
    rem,      \* zip: the bytes the underlying reader holds, from the cursor on
    closed,   \* the underlying reader is at end of file after rem
    fed,      \* the chunks supplied so far
    pos,      \* the stream cursor: bytes consumed from zip
    pc,       \* "sig": at the head of the loop; "callback": f is called next; "done"
    result,   \* what for_each_entry returned
    entry,    \* the locals of the current turn of the loop
    hdrAt,    \* where the signature of the current entry was read
    sigs,     \* where each record signature was read, in order
    headers,  \* how many local file headers were read with their name and extras
    lastSig,  \* the last record signature read
    call      \* the latest callback invocation

VARIABLES
    src,      \* the bytes of the stream under the MagicReader
    ipos,     \* how many of them the inner reader has handed out
    faults,   \* how many reads of the inner reader have failed
    mstate,   \* "new": MagicReader::new is running; "ready"; "failed"
    mpos,     \* MagicReader.pos
    mlim,     \* MagicReader.lim
    mbuf,     \* MagicReader.buf
    got,      \* the bytes the read calls have returned, in order
    last,     \* the latest read call: its buffer length and what it returned
    ilast     \* what the latest read of the inner reader returned

magicVars == <<src, ipos, faults, mstate, mpos, mlim, mbuf, got, last, ilast>>

VARIABLES
    px,       \* parse_extra on its own: its arguments and what it returned
    dec,      \* get_reader: its arguments, where it stands, what it returned
    gs        \* the line searcher: pattern, buffer, where iter stands, what it yielded

\* What each part of the program leaves alone.
besideZip == <<magicVars, px, dec, gs>>
besideMagic == <<px, dec, gs>>

zipVars == <<family, rem, closed, fed, pos, pc, result, entry, hdrAt, sigs, headers, lastSig, call>>

NoResult == [kind |-> "none", arg |-> <<>>]
Ok == [kind |-> "Ok", arg |-> <<>>]
Err(k, a) == [kind |-> k, arg |-> a]

\* A faulty variant of IoError: it forgets which io::Error it wraps.
IoErrorAnonymous(e) == Err("IoError", "Other")

\* From<io::Error> for Error
IoError(e) == Err("IoError", e)

NoCall ==
    [n |-> 0, sigIdx |-> 0, hdrAt |-> 0, hdrLen |-> 0, dataStart |-> 0, streaming |-> FALSE,
     compressed |-> U64(0), method |-> Good("Store"), delivered |-> Good("Store"),
     ret |-> [ok |-> TRUE, v |-> "Continue"], k |-> 0, consumed |-> 0,
     deflate |-> "none", drained |-> FALSE, desc |-> "none", total |-> 0,
     descCompressed |-> U64(0), descLen |-> 0, name |-> <<>>, descBytes |-> <<>>,
     bytes |-> <<>>]

ZipInit ==
    /\ rem = <<>>
    /\ closed = FALSE
    /\ fed = 0
    /\ pos = 0
    /\ pc = "sig"
    /\ result = NoResult
    /\ entry = NoEntry
    /\ hdrAt = 0
    /\ sigs = <<>>
    /\ headers = 0
    /\ lastSig = <<>>
    /\ call = NoCall

Streaming == Bit(entry.flags, 3)

\* Whether the value of the u64 word w is more than the count n.
Exceeds(w, n) == Clamp(w, n + 1) > n

\* What the decoder handed to the callback does on the bytes at the cursor:
\* over take(u64::MAX) for a streaming entry, over take(compressed) otherwise.
Decoding ==
    IF Streaming THEN Inflate(rem)
    ELSE Inflate(Slice(rem, 0, Clamp(entry.compressed, Len(rem))))

\* The reader waits for bytes the underlying reader has not supplied yet.
Starved ==
    /\ ~closed
    /\ \/ pc = "sig" /\ ReadHeader(rem).kind = "eof"
       \/ /\ pc = "callback" /\ ~Streaming
          /\ Exceeds(entry.compressed, Len(rem))
       \/ /\ pc = "callback" /\ Streaming
          /\ entry.method = Good("Deflate")
          /\ \/ Decoding.status = "eof"
             \/ /\ Decoding.status = "end"
                /\ ReadDescriptor(Drop(rem, Decoding.used), ~entry.extra.zip64.some).st = "eof"

\* The underlying reader supplies its next bytes.
Feed ==
    /\ Starved
    /\ fed < MaxChunks
    /\ \E c \in Supply(family, fed) : rem' = rem \o c
    /\ fed' = fed + 1
    /\ UNCHANGED <<family, closed, pos, pc, result, entry, hdrAt, sigs, headers, lastSig, call>>
    /\ UNCHANGED besideZip

\* The underlying reader has no more bytes.
Close ==
    /\ Starved
    /\ closed' = TRUE
    /\ UNCHANGED <<family, rem, fed, pos, pc, result, entry, hdrAt, sigs, headers, lastSig, call>>
    /\ UNCHANGED besideZip

\* A faulty variant of ShortRead: the end of the stream where a signature
\* would begin ends the iteration as a central directory does.
ShortReadLenient(at) ==
    /\ closed
    /\ \E n \in {at, Len(rem)} :
         /\ pos' = pos + n
         /\ rem' = Drop(rem, n)
    /\ pc' = "done"
    /\ result' = IF at = 0 THEN Ok ELSE IoError("UnexpectedEof")

\* A read that fails for want of bytes leaves the cursor where it began or
\* at the end of the stream, as the underlying reader's read_exact chooses.
ShortRead(at) ==
    /\ closed
    /\ \E n \in {at, Len(rem)} :
         /\ pos' = pos + n
         /\ rem' = Drop(rem, n)
    /\ pc' = "done"
    /\ result' = IoError("UnexpectedEof")

\* loop { match zip.read_u32() .. ; the header, name and extras ; .. }
ReadRecord ==
    /\ pc = "sig"
    /\ LET h == ReadHeader(rem)
       IN  /\ IF h.sig # <<>>
                THEN sigs' = Append(sigs, pos) /\ lastSig' = h.sig
                ELSE UNCHANGED <<sigs, lastSig>>
           /\ headers' = IF h.kind \in {"local", "panic"} THEN headers + 1 ELSE headers
           /\ IF h.kind = "eof"
                THEN ShortRead(h.at) /\ UNCHANGED <<entry, hdrAt>>
                ELSE /\ pos' = pos + h.at
                     /\ rem' = Drop(rem, h.at)
                     /\ pc' = IF h.kind = "local" THEN "callback" ELSE "done"
                     /\ result' = CASE h.kind = "halt" -> Ok
                                    [] h.kind = "unknown" -> Err("UnknownRecord", h.sig)
                                    [] h.kind = "panic" -> Err("panic", <<>>)
                                    [] OTHER -> result
                     /\ IF h.kind \in {"local", "panic"}
                          THEN entry' = h.e /\ hdrAt' = pos
                          ELSE UNCHANGED <<entry, hdrAt>>
    /\ UNCHANGED <<family, closed, fed, call>>
    /\ UNCHANGED besideZip

\* What a callback can do with a deflate handle: <<k, c>>, k bytes read and
\* c bytes taken from the input.  It reads nothing; or k bytes, the decoder
\* having taken what out[k] needs and less than what out[k+1] needs; or
\* (endSeen) up to the end of the decoded data.
Reads(inf, endSeen) ==
    {<<0, 0>>}
    \cup { <<k, c>> \in (1..Len(inf.out)) \X (0..inf.used) :
             /\ k <= MaxRead \/ k = Len(inf.out)
             /\ inf.need[k] <= c
             /\ IF k < Len(inf.out) THEN c < inf.need[k + 1] ELSE TRUE }
    \cup (IF endSeen THEN {<<Len(inf.out), inf.used>>} ELSE {})

\* A faulty variant of drain: it leaves the unread bytes unread.
drain_none(lim, c) == c

\* drain(r) on a reader that yields lim bytes, c of them consumed already:
\* the bytes consumed when it returns.
drain(lim, c) == lim

\* The outcome of the rest of a turn of the loop, once the callback has run:
\*   done, res   for_each_entry returns res / the loop goes round again
\*   n           how far the cursor has moved since the callback was called
\*   wait        the outcome needs the end of the stream to have been met
\*   drained     drain was called
\*   desc        the data descriptor: "none" (not read), "short", "read"
Outcome(done, res, n, wait, drained) ==
    [done |-> done, res |-> res, n |-> n, wait |-> wait, drained |-> drained,
     desc |-> "none", total |-> 0, descCompressed |-> U64(0), descLen |-> 0,
     descBytes |-> <<>>]

\* A faulty variant of ErrorOutcome: the callback's error is dropped and the
\* loop goes round again.
ErrorSwallowed(ret, c) == Outcome(FALSE, NoResult, c, FALSE, FALSE)

\* try!(f(..)) on an Err: for_each_entry returns it, the cursor c bytes on.
ErrorOutcome(ret, c) == Outcome(TRUE, IoError(ret.v), c, FALSE, FALSE)

\* A faulty variant of Stops: Stop is taken for Continue.
StopsNever(ret) == FALSE

\* if let Action::Stop = action { break; }
Stops(ret) == ret = Stop

\* A faulty variant of LimitedStep: an entry that carries a per-entry error
\* ends the iteration, as it does in the other branch.
LimitedStepAbort(m, ret, c, lim, short) ==
    IF ~ret.ok THEN ErrorOutcome(ret, c)
    ELSE IF ~m.ok THEN Outcome(TRUE, Err("UnknownDataSize", <<>>), c, FALSE, FALSE)
    ELSE IF Stops(ret) THEN Outcome(TRUE, Ok, c, FALSE, FALSE)
    ELSE Outcome(FALSE, NoResult, drain(lim, c), short, TRUE)

\* flags & (1 << 3) == 0: the entry's size is known.  m is the entry result,
\* ret what the callback returned having taken c bytes from take(compressed),
\* which yields lim bytes (short: fewer than `compressed`).
LimitedStep(m, ret, c, lim, short) ==
    IF ~ret.ok THEN ErrorOutcome(ret, c)
    ELSE IF Stops(ret) THEN Outcome(TRUE, Ok, c, FALSE, FALSE)
    ELSE Outcome(FALSE, NoResult, drain(lim, c), short, TRUE)

\* A faulty variant of Mismatch: the descriptor is read and not compared.
MismatchNever(total, compressed) == FALSE

\* total != compressed
Mismatch(total, compressed) == U64(total) # compressed

\* A faulty variant of Delivered: a streaming Store entry is handed over as
\* Store.
DeliveredRaw(streaming, m) == m

\* A faulty variant of Delivered: every streaming entry that is not Deflate
\* is handed over as UnknownDataSize.
DeliveredUnknownSize(streaming, m) ==
    IF streaming /\ m # Good("Deflate") THEN Bad("UnknownDataSize", 0) ELSE m

\* The entry result handed to the callback.
Delivered(streaming, m) ==
    IF streaming /\ m = Good("Store") THEN Bad("UnknownDataSize", 0) ELSE m

\* flags & (1 << 3) != 0: the entry's size is in a data descriptor after it.
\* inf is the decoder's run on the bytes at the cursor, d the descriptor after
\* it; alt picks among the outcomes left open: whether the decoder reports an
\* input that ends inside the deflate stream or ends its output silently, and
\* where a failing read leaves the cursor.
StreamingStep(m, ret, c, inf, d, avail, alt) ==
    IF ~ret.ok THEN ErrorOutcome(ret, c)
    ELSE IF m # Good("Deflate") THEN Outcome(TRUE, Err("UnknownDataSize", <<>>), 0, FALSE, FALSE)
    ELSE IF inf.status = "corrupt"
      THEN Outcome(TRUE, IoError("InvalidInput"), inf.used, FALSE, TRUE)
    ELSE IF inf.status = "eof" /\ alt
      THEN Outcome(TRUE, IoError("InvalidInput"), inf.used, TRUE, TRUE)
    ELSE IF Stops(ret) THEN Outcome(TRUE, Ok, drain(inf.used, c), inf.status = "eof", TRUE)
    ELSE IF d.st = "eof"
      THEN [Outcome(TRUE, IoError("UnexpectedEof"),
                    IF alt THEN avail ELSE inf.used + d.at, TRUE, TRUE)
              EXCEPT !.desc = "short", !.total = inf.used]
    ELSE
      LET total == drain(inf.used, c)            \* u64::max_value() - data.limit()
      IN  [Outcome(Mismatch(total, d.compressed),
                   IF Mismatch(total, d.compressed)
                     THEN Err("DataDescriptorMismatch", <<>>) ELSE NoResult,
                   total + d.len, FALSE, TRUE)
             EXCEPT !.desc = "read", !.total = total,
                    !.descCompressed = d.compressed, !.descLen = d.len,
                    !.descBytes = d.bytes]

\* The callback was called with the entry result, read k bytes from its
\* handle (which took c bytes from zip) and returned ret; the turn of the
\* loop ended as o says.  bytes: what the callback read, the raw bytes at the
\* cursor for Store and the decoder's output for Deflate.
Turn(ret, k, c, deflate, o) ==
    /\ o.wait => closed
    /\ pos' = pos + o.n
    /\ rem' = Drop(rem, o.n)
    /\ pc' = IF o.done THEN "done" ELSE "sig"
    /\ result' = o.res
    /\ call' = [n |-> call.n + 1, sigIdx |-> Len(sigs), hdrAt |-> hdrAt, hdrLen |-> entry.len,
                dataStart |-> pos, streaming |-> Streaming, compressed |-> entry.compressed,
                method |-> entry.method, delivered |-> Delivered(Streaming, entry.method),
                ret |-> ret, k |-> k, consumed |-> c, deflate |-> deflate,
                drained |-> o.drained, desc |-> o.desc, total |-> o.total,
                descCompressed |-> o.descCompressed, descLen |-> o.descLen,
                name |-> entry.name, descBytes |-> o.descBytes,
                bytes |-> IF deflate = "none" THEN Slice(rem, 0, k)
                          ELSE SubSeq(Decoding.out, 1, k)]
    /\ UNCHANGED <<family, closed, fed, entry, hdrAt, sigs, headers, lastSig>>
    /\ UNCHANGED besideZip

CallbackLimited ==
    /\ pc = "callback" /\ ~Streaming
    /\ LET lim   == Clamp(entry.compressed, Len(rem))      \* what take(compressed) can yield
           short == Exceeds(entry.compressed, Len(rem))
           m     == entry.method
           reads == IF ~m.ok THEN {<<0, 0>>}
                    ELSE IF m.kind = "Store"
                      THEN {<<k, k>> : k \in (0..Min(lim, MaxRead)) \cup {lim}}
                    ELSE Reads(Decoding, closed \/ ~short \/ Decoding.status \in {"end", "corrupt"})
       IN  /\ m = Good("Deflate") => Decoding.status # "huffman"
           /\ \E rd \in reads, ret \in Returns :
                Turn(ret, rd[1], rd[2],
                     IF m = Good("Deflate") THEN Decoding.status ELSE "none",
                     LimitedStep(m, ret, rd[2], lim, short))

CallbackStreaming ==
    /\ pc = "callback" /\ Streaming
    /\ LET m == entry.method
       IN  IF m # Good("Deflate")
             THEN \E ret \in Returns :
                    Turn(ret, 0, 0, "none",
                         StreamingStep(m, ret, 0, Inflate(<<>>), ReadDescriptor(<<>>, TRUE), 0, FALSE))
             ELSE
               LET inf == Decoding
                   d   == ReadDescriptor(Drop(rem, inf.used), ~entry.extra.zip64.some)
               IN  /\ inf.status # "huffman"
                   /\ \E ret \in Returns, alt \in BOOLEAN :
                        \E rd \in Reads(inf, closed \/ inf.status \in {"end", "corrupt"}) :
                          Turn(ret, rd[1], rd[2], inf.status,
                               StreamingStep(m, ret, rd[2], inf, d, Len(rem), alt))

ZipNext == Feed \/ Close \/ ReadRecord \/ CallbackLimited \/ CallbackStreaming

(***************************************************************************)
(* MagicReader (src/src/magic.rs).                                         *)
(***************************************************************************)
\* The streams put under a MagicReader: every prefix, up to MaxStream bytes,
\* of a gzip stream, a ZIP archive, an empty ZIP archive, a stream that
\* starts like neither, and a stream of distinct bytes.
MaxStream == 6

MagicBases ==
    { <<31, 139, 8, 0, 9, 2, 3, 7>>,
      <<80, 75, 3, 4, 10, 0, 9, 8>>,
      <<80, 75, 5, 6, 0, 1, 0, 2>>,
      <<80, 75, 7, 8, 31, 139, 1, 2>>,
      <<11, 12, 13, 14, 15, 16, 17, 18>> }

MagicStreams == { SubSeq(b, 1, n) : b \in MagicBases, n \in 0..Min(MaxStream, 8) }

\* The longest buffer a caller reads into, and how many reads of the inner
\* reader may fail.
MaxBuf == 5
MaxFaults == 1

ReadOk(n) == [ok |-> TRUE, n |-> n, err |-> "none"]
ReadErr(e) == [ok |-> FALSE, n |-> 0, err |-> e]

\* The record of the latest read(buf) of the MagicReader: the length of buf,
\* what was returned, whether the reader was as new() left it, and whether the
\* inner reader (if called) filled what it was given as far as bytes remained.
NoRead == [len |-> 0, ret |-> ReadErr("none"), fresh |-> FALSE, filled |-> FALSE]

StartsWith(s, prefix) == Len(s) >= Len(prefix) /\ SubSeq(s, 1, Len(prefix)) = prefix

\* A faulty variant of from_slice: any record signature PK.. is a ZIP.
from_slice_any_pk(buf) ==
    IF StartsWith(buf, <<31, 139>>) THEN "Gzip"
    ELSE IF StartsWith(buf, <<80, 75>>) THEN "Zip"
    ELSE "Unknown"

\* Magic::from_slice.
from_slice(buf) ==
    IF StartsWith(buf, <<31, 139>>) THEN "Gzip"
    ELSE IF StartsWith(buf, <<80, 75, 3, 4>>) THEN "Zip"
    ELSE IF StartsWith(buf, <<80, 75, 5, 6>>) THEN "Zip"
    ELSE "Unknown"

\* What inner.read(buf) may return for a buffer of len bytes: some of the
\* bytes left (at least one, if the buffer is not empty and bytes are left),
\* or an error.
InnerReads(len) ==
    (IF len = 0 \/ ipos = Len(src) THEN {ReadOk(0)}
     ELSE {ReadOk(n) : n \in 1..Min(len, Len(src) - ipos)})
    \cup (IF faults < MaxFaults THEN {ReadErr("Interrupted"), ReadErr("Other")} ELSE {})

MagicInit ==
    /\ src \in MagicStreams
    /\ ipos = 0
    /\ faults = 0
    /\ mstate = "new"
    /\ mpos = 0
    /\ mlim = 0
    /\ mbuf = <<0, 0, 0, 0>>
    /\ got = <<>>
    /\ last = NoRead
    /\ ilast = ReadErr("none")

\* A faulty variant of NewStep: a read that fails with Interrupted fails the
\* construction, as any other error does.
NewStepNoRetry ==
    /\ mstate = "new"
    /\ \E r \in InnerReads(4 - mlim) :
         /\ faults' = IF r.ok THEN faults ELSE faults + 1
         /\ ipos' = ipos + r.n
         /\ mlim' = mlim + r.n
         /\ mbuf' = [i \in 1..4 |-> IF mlim < i /\ i <= mlim + r.n THEN src[ipos + i - mlim] ELSE mbuf[i]]
         /\ mstate' = IF r.ok THEN (IF r.n = 0 \/ mlim + r.n = 4 THEN "ready" ELSE "new")
                      ELSE "failed"
         /\ ilast' = r
    /\ UNCHANGED <<src, mpos, got, last>>
    /\ UNCHANGED <<zipVars, besideMagic>>

\* MagicReader::new: one turn of read_all's loop, on what reader.read returned.
NewStep ==
    /\ mstate = "new"
    /\ \E r \in InnerReads(4 - mlim) :
         /\ faults' = IF r.ok THEN faults ELSE faults + 1
         /\ ipos' = ipos + r.n
         /\ mlim' = mlim + r.n
         /\ mbuf' = [i \in 1..4 |-> IF mlim < i /\ i <= mlim + r.n THEN src[ipos + i - mlim] ELSE mbuf[i]]
         /\ mstate' = IF r.ok THEN (IF r.n = 0 \/ mlim + r.n = 4 THEN "ready" ELSE "new")
                      ELSE IF r.err = "Interrupted" THEN "new" ELSE "failed"
         /\ ilast' = r
    /\ UNCHANGED <<src, mpos, got, last>>
    /\ UNCHANGED <<zipVars, besideMagic>>

\* How many peeked bytes a read into n bytes replays.
Replayed(p, lim, n) == IF p < lim THEN Min(lim - p, n) ELSE 0

\* Whether a read into n bytes calls the inner reader, and with how many bytes.
InnerLen(p, lim, n) ==
    IF p < lim THEN n - Replayed(p, lim, n) ELSE n

CallsInner(p, lim, n) == p >= lim \/ Replayed(p, lim, n) < n

\* A faulty variant of MagicRead: pos stays where it was.
MagicReadNoAdvance(p, lim, buf, n, r, bytes) ==
    IF p < lim THEN
      LET count == Min(lim - p, n)
          head  == Slice(buf, p, count)
      IN  IF count < n
            THEN IF r.ok THEN [pos |-> p, ret |-> ReadOk(count + r.n), data |-> head \o bytes]
                 ELSE [pos |-> p, ret |-> ReadOk(count), data |-> head]
          ELSE [pos |-> p, ret |-> ReadOk(count), data |-> head]
    ELSE [pos |-> p, ret |-> r, data |-> bytes]

\* A faulty variant of MagicRead: pos moves on by the length of the caller's
\* buffer.
MagicReadOverrun(p, lim, buf, n, r, bytes) ==
    [MagicReadNoAdvance(p, lim, buf, n, r, bytes) EXCEPT !.pos = p + n]

\* A faulty variant of MagicRead: an error of the inner reader is returned
\* also when peeked bytes were copied.
MagicReadPropagate(p, lim, buf, n, r, bytes) ==
    [MagicReadNoAdvance(p, lim, buf, n, r, bytes)
       EXCEPT !.pos = p + Replayed(p, lim, n), !.ret = IF r.ok THEN @ ELSE r]

\* A faulty variant of MagicRead: a read that replays peeked bytes returns
\* them alone.
MagicReadPeekOnly(p, lim, buf, n, r, bytes) ==
    IF p < lim THEN
      LET count == Min(lim - p, n)
      IN  [pos |-> p + count, ret |-> ReadOk(count), data |-> Slice(buf, p, count)]
    ELSE [pos |-> p, ret |-> r, data |-> bytes]

\* MagicReader::read(buf), buf of n bytes, r what the inner reader returned
\* (if called) and bytes what it wrote: the new pos, the value returned and
\* the bytes written to buf.
MagicRead(p, lim, buf, n, r, bytes) ==
    IF p < lim THEN
      LET count == Min(lim - p, n)
          head  == Slice(buf, p, count)
      IN  IF count < n
            THEN IF r.ok THEN [pos |-> p + count, ret |-> ReadOk(count + r.n), data |-> head \o bytes]
                 ELSE [pos |-> p + count, ret |-> ReadOk(count), data |-> head]
          ELSE [pos |-> p + count, ret |-> ReadOk(count), data |-> head]
    ELSE [pos |-> p, ret |-> r, data |-> bytes]

Read ==
    /\ mstate = "ready"
    /\ \E n \in 0..MaxBuf :
         \E r \in IF CallsInner(mpos, mlim, n) THEN InnerReads(InnerLen(mpos, mlim, n)) ELSE {ReadOk(0)} :
           LET o == MagicRead(mpos, mlim, mbuf, n, r, Slice(src, ipos, r.n))
           IN  /\ mpos' = o.pos
               /\ got' = got \o o.data
               /\ last' = [len |-> n, ret |-> o.ret,
                           fresh |-> mpos = 0 /\ ipos = mlim,
                           filled |-> CallsInner(mpos, mlim, n) =>
                               r = ReadOk(Min(InnerLen(mpos, mlim, n), Len(src) - ipos))]
               /\ ipos' = ipos + r.n
               /\ faults' = IF r.ok THEN faults ELSE faults + 1
               /\ ilast' = IF CallsInner(mpos, mlim, n) THEN r ELSE ilast
    /\ UNCHANGED <<src, mstate, mlim, mbuf>>
    /\ UNCHANGED <<zipVars, besideMagic>>

MagicNext == NewStep \/ Read

\* MagicReader::magic, of a reader that new() returned.
magic == from_slice(Slice(mbuf, 0, mlim))

(***************************************************************************)
(* parse_extra on its own: called, as for_each_entry and the tests call    *)
(* it, with Extra::default(), on extras made of whole records followed by  *)
(* at most one record cut short.                                           *)
(***************************************************************************)
FieldSeqs(n) == UNION { [1..k -> Fields] : k \in 0..n }

\* recs: the whole records; tail: the record cut short after them, if any.
ParseInputs ==
    { [recs |-> r, tail |-> <<>>] : r \in FieldSeqs(MaxFields) }
    \cup { [recs |-> r, tail |-> t] : r \in FieldSeqs(MaxFields - 1), t \in CutFields }

NotParsed == [extra |-> NoExtra, st |-> "none"]

ParseInit ==
    \E name \in ParseNames, i \in ParseInputs :
        px = [st |-> "new", name_buf |-> name, recs |-> i.recs, tail |-> i.tail,
              out |-> NotParsed]

\* parse_extra(&extra_buf, &name_buf, &mut extra) with extra = Default::default()
ParseExtra ==
    /\ px.st = "new"
    /\ px' = [px EXCEPT !.st = "done",
                        !.out = parse_extra(Flatten(px.recs) \o px.tail, px.name_buf, NoExtra)]
    /\ UNCHANGED <<zipVars, magicVars, dec, gs>>

ParseNext == ParseExtra

ParseIdle == px = [st |-> "idle", name_buf |-> <<>>, recs |-> <<>>, tail |-> <<>>, out |-> NotParsed]

(***************************************************************************)
(* decompressor.rs: get_reader.  A path is the sequence of its characters. *)
(***************************************************************************)
EndsWith(s, suffix) ==
    Len(s) >= Len(suffix) /\ SubSeq(s, Len(s) - Len(suffix) + 1, Len(s)) = suffix

\* The globs "*.ext" of a GlobSet, each kept as the suffix a path must end
\* with (the star matches any characters, separators too).
SUPPORTED_COMPRESSION_FORMATS ==
    { <<".", "g", "z">>, <<".", "b", "z", "2">>, <<".", "x", "z">>, <<".", "l", "z", "m", "a">> }

TAR_ARCHIVE_FORMATS ==
    { <<".", "t", "a", "r", ".", "g", "z">>, <<".", "t", "a", "r", ".", "x", "z">>,
      <<".", "t", "a", "r", ".", "b", "z", "2">>, <<".", "t", "g", "z">>,
      <<".", "t", "x", "z">>, <<".", "t", "b", "z", "2">> }

\* GlobSet::is_match
is_match(globs, path) == \E g \in globs : EndsWith(path, g)

is_supported_compression_format(path) == is_match(SUPPORTED_COMPRESSION_FORMATS, path)

\* A faulty variant of is_tar_archive: only the globs "*.tar.ext".
is_tar_archive_dotted(path) ==
    is_match({ g \in TAR_ARCHIVE_FORMATS : Len(g) > 5 }, path)

is_tar_archive(path) == is_match(TAR_ARCHIVE_FORMATS, path)

is_compressed(path) == is_supported_compression_format(path) \/ is_tar_archive(path)

\* The keys of DECOMPRESSION_COMMANDS and the commands they name.
DECOMPRESSION_COMMANDS ==
    [ext \in { <<"g", "z">>, <<"b", "z", "2">>, <<"x", "z">>, <<"l", "z", "m", "a">> } |->
        CASE ext = <<"g", "z">> -> "gunzip"
          [] ext = <<"b", "z", "2">> -> "bunzip2"
          [] ext = <<"x", "z">> -> "unxz"
          [] ext = <<"l", "z", "m", "a">> -> "unlzma"]

\* The index of the last c in s, 0 if there is none.
LastIndex(s, c) ==
    IF \E i \in 1..Len(s) : s[i] = c
    THEN CHOOSE i \in 1..Len(s) : s[i] = c /\ \A j \in (i + 1)..Len(s) : s[j] # c
    ELSE 0

\* Path::file_name, for a path that ends neither in a separator nor in a
\* component "." after one: what follows the last separator, and none if
\* that is empty, "." or "..".
file_name(path) ==
    LET name == Drop(path, LastIndex(path, "/"))
    IN  IF name \in {<<>>, <<".">>, <<".", ".">>} THEN [some |-> FALSE, v |-> <<>>]
        ELSE [some |-> TRUE, v |-> name]

\* Path::extension: what follows the last dot of the file name; none if
\* there is no file name, no dot in it, or nothing before its only dot.
extension(path) ==
    LET f   == file_name(path)
        dot == LastIndex(f.v, ".")
    IN  IF ~f.some \/ dot = 0 \/ dot = 1 THEN [some |-> FALSE, v |-> <<>>]
        ELSE [some |-> TRUE, v |-> Drop(f.v, dot)]

\* A faulty variant of Returned: the child's stdout whatever stderr held.
ReturnedAlways(error, no_messages) == [ret |-> "stdout", warned |-> FALSE]

\* What get_reader returns once stderr is read to its end into error, and
\* whether it printed the warning.
Returned(error, no_messages) ==
    IF error = <<>> THEN [ret |-> "stdout", warned |-> FALSE]
    ELSE [ret |-> "None", warned |-> ~no_messages]

\* The paths given to get_reader.
Stems == { <<>>, <<"a">>, <<"a", ".", "t", "a", "r">>, <<"d", ".", "x", "z", "/", "b">> }

Suffixes ==
    SUPPORTED_COMPRESSION_FORMATS
    \cup { <<".", "t", "g", "z">>, <<".", "t", "b", "z", "2">>, <<".", "t", "x", "z">>,
           <<".", "t", "x", "t">>,
           <<".", "G", "Z">>, <<".">>, <<"g", "z">> }

DecPaths == { stem \o suffix : stem \in Stems, suffix \in Suffixes } \cup { <<"a">>, <<"d", "/", "b">> }

\* What the child writes to its stderr; the longest is MaxErr bytes.
MaxErr == 2
ChildErrors == UNION { [1..k -> {10, 101}] : k \in 0..MaxErr }

\* How many reads of the child's stderr may fail.
MaxErrFaults == 1

\* How many bytes the pipe of the child's stdout holds, and the most a child
\* writes to its stdout.
PipeCap == 2
MaxOut == PipeCap + 1

\* A faulty variant of AtEof: the end is taken as reached when nothing is
\* there to read.
AtEofUnclosed(d) == Len(d.error) = Len(d.stderr)

\* read_to_end meets the end of stderr: all that was written is read and the
\* child has closed its end of the pipe.
AtEof(d) == d.errClosed /\ Len(d.error) = Len(d.stderr)

\* dec.st: "new" (get_reader called), "spawn" (the command is chosen),
\* "reading" (the child runs, read_to_end is reading its stderr), "done"
\* (get_reader returned dec.ret) or "panic" (an unwrap() of None or of Err).
DecInit ==
    \E path \in DecPaths, no_messages \in BOOLEAN :
        dec = [st |-> "new", path |-> path, no_messages |-> no_messages, cmd |-> "none",
               spawned |-> FALSE, stderr |-> <<>>, error |-> <<>>, eof |-> FALSE, faults |-> 0,
               ret |-> "none", warned |-> FALSE, debug |-> "none",
               args |-> <<>>, children |-> 0, outLeft |-> 0, pipe |-> 0,
               early |-> FALSE, errClosed |-> FALSE]

\* get_reader up to the command: tar archives return None; the extension and
\* the command for it are unwrapped.
Resolve ==
    /\ dec.st = "new"
    /\ dec' =
         IF is_tar_archive(dec.path)
           THEN [dec EXCEPT !.st = "done", !.ret = "None", !.debug = "tar"]
         ELSE LET e == extension(dec.path)
              IN  IF ~e.some \/ e.v \notin DOMAIN DECOMPRESSION_COMMANDS
                    THEN [dec EXCEPT !.st = "panic"]
                  ELSE [dec EXCEPT !.st = "spawn", !.cmd = DECOMPRESSION_COMMANDS[e.v],
                                   !.args = <<"-c", dec.path>>]
    /\ UNCHANGED <<zipVars, magicVars, px, gs>>

\* Command::spawn with stdout and stderr piped: a child that will write err
\* to its stderr and out bytes to its stdout, and closes its stderr early or
\* when it exits; or an error, for which get_reader returns None.
Spawn ==
    /\ dec.st = "spawn"
    /\ \/ \E err \in ChildErrors, out \in 0..MaxOut, early \in BOOLEAN :
            dec' = [dec EXCEPT !.st = "reading", !.spawned = TRUE, !.stderr = err,
                               !.children = dec.children + 1,
                               !.outLeft = out, !.early = early]
       \/ dec' = [dec EXCEPT !.st = "done", !.ret = "None", !.debug = "not found"]
    /\ UNCHANGED <<zipVars, magicVars, px, gs>>

\* The child writes a byte to its stdout, which nobody reads before
\* get_reader returns: it blocks when the pipe is full.
ChildWrite ==
    /\ dec.st = "reading"
    /\ dec.outLeft > 0 /\ dec.pipe < PipeCap
    /\ dec' = [dec EXCEPT !.outLeft = dec.outLeft - 1, !.pipe = dec.pipe + 1]
    /\ UNCHANGED <<zipVars, magicVars, px, gs>>

\* The child closes its stderr: early, or when it exits with its stdout
\* written.
ChildClose ==
    /\ dec.st = "reading"
    /\ ~dec.errClosed
    /\ dec.early \/ dec.outLeft = 0
    /\ dec' = [dec EXCEPT !.errClosed = TRUE]
    /\ UNCHANGED <<zipVars, magicVars, px, gs>>

\* One read of stderr.read_to_end(&mut error).unwrap(): some bytes, an
\* interruption (read again), an error (the unwrap panics), or the end of
\* the stream, after which get_reader returns.  With nothing to read and
\* stderr open the read blocks.
ReadStderr ==
    /\ dec.st = "reading"
    /\ LET left == Len(dec.stderr) - Len(dec.error)
       IN  \/ /\ left > 0
              /\ \E n \in 1..left :
                   dec' = [dec EXCEPT !.error = SubSeq(dec.stderr, 1, Len(dec.error) + n)]
           \/ /\ AtEof(dec)
              /\ LET r == Returned(dec.error, dec.no_messages)
                 IN  dec' = [dec EXCEPT !.st = "done", !.eof = TRUE,
                                        !.ret = r.ret, !.warned = r.warned]
           \/ /\ dec.faults < MaxErrFaults
              /\ \/ dec' = [dec EXCEPT !.faults = dec.faults + 1]
                 \/ dec' = [dec EXCEPT !.faults = dec.faults + 1, !.st = "panic"]
    /\ UNCHANGED <<zipVars, magicVars, px, gs>>

DecNext == Resolve \/ Spawn \/ ChildWrite \/ ChildClose \/ ReadStderr

(***************************************************************************)
(* The line searcher of the grep crate (search, literals, nonl), of which  *)
(* src/ holds the error type only.  A pattern is its syntax tree; buffers  *)
(* and literals are sequences of bytes.                                    *)
(***************************************************************************)
\* line_terminator, at its default
Terminator == 10

Empty == [t |-> "empty"]
Lit(b) == [t |-> "lit", b |-> b]
Class(set) == [t |-> "class", set |-> set]
Cat(l, r) == [t |-> "cat", l |-> l, r |-> r]
Alt(l, r) == [t |-> "alt", l |-> l, r |-> r]
Star(e) == [t |-> "star", e |-> e]

\* Whether the regex e matches the whole of s.
RECURSIVE Matches(_, _)
Matches(e, s) ==
    CASE e.t = "empty" -> s = <<>>
      [] e.t = "lit" -> s = <<e.b>>
      [] e.t = "class" -> Len(s) = 1 /\ s[1] \in e.set
      [] e.t = "cat" ->
           \E k \in 0..Len(s) : Matches(e.l, SubSeq(s, 1, k)) /\ Matches(e.r, SubSeq(s, k + 1, Len(s)))
      [] e.t = "alt" -> Matches(e.l, s) \/ Matches(e.r, s)
      [] e.t = "star" ->
           \/ s = <<>>
           \/ \E k \in 1..Len(s) : Matches(e.e, SubSeq(s, 1, k)) /\ Matches(e, SubSeq(s, k + 1, Len(s)))

\* The regex applied to buf[from..to): the offset of its leftmost match, and
\* none if it matches nowhere.
Find(e, buf, from, to) ==
    LET at == { i \in from..to : \E j \in i..to : Matches(e, SubSeq(buf, i + 1, j)) }
    IN  IF from > to \/ at = {} THEN [some |-> FALSE, at |-> 0]
        ELSE [some |-> TRUE, at |-> CHOOSE i \in at : \A k \in at : i <= k]

\* A faulty variant of nonl: repetitions are not looked into.
RECURSIVE nonl_shallow(_, _)
nonl_shallow(e, byte) ==
    CASE e.t = "lit" -> e.b # byte
      [] e.t = "class" -> byte \notin e.set
      [] e.t \in {"cat", "alt"} -> nonl_shallow(e.l, byte) /\ nonl_shallow(e.r, byte)
      [] OTHER -> TRUE

\* The non-newline asserter: whether no literal and no class of the tree
\* holds the byte, repetitions included.
RECURSIVE nonl(_, _)
nonl(e, byte) ==
    CASE e.t = "lit" -> e.b # byte
      [] e.t = "class" -> byte \notin e.set
      [] e.t \in {"cat", "alt"} -> nonl(e.l, byte) /\ nonl(e.r, byte)
      [] e.t = "star" -> nonl(e.e, byte)
      [] OTHER -> TRUE

\* The largest class the literal extractor expands into an alternation.
ClassThreshold == 1

\* No literals: the sub-expression requires none.
NoLits == [some |-> FALSE, exact |-> FALSE, set |-> {}]

\* A faulty variant of StarLiterals: a repetition contributes the literals
\* of what it repeats, as required.
StarLiteralsKept(inner) == [inner EXCEPT !.exact = FALSE]

\* What a repetition contributes, inner being the literals of what it
\* repeats: they are not required, and discarded.
StarLiterals(inner) == NoLits

\* The literal extractor: a set of literals of which every match of e holds
\* at least one (some), and whether the set is all that e matches (exact).
\* Literals contribute their bytes, small classes expand, concatenations
\* multiply, alternations union, repetitions and large classes contribute
\* nothing.
RECURSIVE Literals(_)
Literals(e) ==
    CASE e.t = "empty" -> [some |-> TRUE, exact |-> TRUE, set |-> {<<>>}]
      [] e.t = "lit" -> [some |-> TRUE, exact |-> TRUE, set |-> {<<e.b>>}]
      [] e.t = "class" ->
           IF Cardinality(e.set) <= ClassThreshold
             THEN [some |-> TRUE, exact |-> TRUE, set |-> { <<b>> : b \in e.set }]
             ELSE NoLits
      [] e.t = "cat" ->
           LET l == Literals(e.l)
               r == Literals(e.r)
           IN  IF l.some /\ r.some /\ l.exact /\ r.exact
                 THEN [some |-> TRUE, exact |-> TRUE, set |-> { x \o y : x \in l.set, y \in r.set }]
               ELSE IF l.some /\ <<>> \notin l.set THEN [l EXCEPT !.exact = FALSE]
               ELSE IF r.some /\ <<>> \notin r.set THEN [r EXCEPT !.exact = FALSE]
               ELSE NoLits
      [] e.t = "alt" ->
           LET l == Literals(e.l)
               r == Literals(e.r)
           IN  IF l.some /\ r.some
                 THEN [some |-> TRUE, exact |-> l.exact /\ r.exact, set |-> l.set \cup r.set]
                 ELSE NoLits
      [] e.t = "star" -> StarLiterals(Literals(e.e))

\* The prefilter kept by the searcher: the literals, unless there are none,
\* one of them is empty, or one holds the line terminator.
Prefilter(e, byte) ==
    LET l == Literals(e)
    IN  IF l.some /\ l.set # {} /\ \A x \in l.set : x # <<>> /\ \A i \in 1..Len(x) : x[i] # byte
          THEN [some |-> TRUE, set |-> l.set]
          ELSE [some |-> FALSE, set |-> {}]

\* The offset of the first occurrence in buf[from..] of a literal of the
\* set, and none if there is no occurrence.
FindLiteral(set, buf, from) ==
    LET at == { i \in from..Len(buf) :
                  \E x \in set : i + Len(x) <= Len(buf) /\ SubSeq(buf, i + 1, i + Len(x)) = x }
    IN  IF at = {} THEN [some |-> FALSE, at |-> 0]
        ELSE [some |-> TRUE, at |-> CHOOSE i \in at : \A k \in at : i <= k]

\* A faulty variant of LineStart: the line is taken to start at the hit.
LineStartAtHit(buf, h, byte) == h

\* line_start: one past the last line terminator before offset h, or 0.
LineStart(buf, h, byte) ==
    LET before == { i \in 1..h : buf[i] = byte }
    IN  IF before = {} THEN 0 ELSE CHOOSE i \in before : \A k \in before : k <= i

\* line_end: the offset of the first line terminator at or after offset h,
\* or the length of buf.
LineEnd(buf, h, byte) ==
    LET after == { i \in h..(Len(buf) - 1) : buf[i + 1] = byte }
    IN  IF after = {} THEN Len(buf) ELSE CHOOSE i \in after : \A k \in after : i <= k

\* A faulty variant of Span: the span ends before the terminator.
SpanBare(buf, ls, le) == [some |-> TRUE, start |-> ls, end |-> le, low |-> ls]

\* The span of the line at line_start..line_end, with its terminator when
\* there is one.
Span(buf, ls, le) == [some |-> TRUE, start |-> ls, end |-> Min(le + 1, Len(buf)), low |-> ls]

NoMatch == [some |-> FALSE, start |-> 0, end |-> 0, low |-> 0]

\* A faulty variant of Resume: the next scan resumes at the start of the
\* match.
ResumeAtStart(m) == m.start

\* Where iter resumes after yielding the match m.
Resume(m) == m.end

\* A faulty variant of Remains: a scan is made of an empty rest as well.
RemainsAlways(buf, start) == TRUE

\* Whether anything of buf remains to be scanned from start.
Remains(buf, start) == start < Len(buf)

\* read_match(buf, start): the span of the next line of buf[start..] in which
\* the regex matches, and none if none remains; low is the lowest offset the
\* regex was applied to.
RECURSIVE read_match(_, _, _, _, _)
read_match(re, pre, byte, buf, start) ==
    IF ~Remains(buf, start) THEN [NoMatch EXCEPT !.low = start]
    ELSE IF pre.some THEN
      LET h == FindLiteral(pre.set, buf, start)
      IN  IF ~h.some THEN [NoMatch EXCEPT !.low = start]
          ELSE
            LET ls == LineStart(buf, h.at, byte)
                le == LineEnd(buf, h.at, byte)
            IN  IF Find(re, buf, ls, le).some THEN Span(buf, ls, le)
                ELSE [read_match(re, pre, byte, buf, le + 1) EXCEPT !.low = ls]
    ELSE
      LET m == Find(re, buf, start, Len(buf))
      IN  IF ~m.some THEN [NoMatch EXCEPT !.low = start]
          ELSE [Span(buf, LineStart(buf, m.at, byte), LineEnd(buf, m.at, byte))
                  EXCEPT !.low = Min(start, LineStart(buf, m.at, byte))]

\* The patterns searchers are built from: atoms, and what one or two
\* operators make of them.
Atoms == { Empty, Lit(97), Lit(98), Lit(10), Class({97, 98}), Class({98, 10}) }

Composite ==
    { Star(x) : x \in Atoms }
    \cup { Alt(Lit(97), Lit(98)), Alt(Lit(97), Empty), Cat(Lit(97), Lit(98)), Cat(Lit(98), Lit(10)) }

Patterns ==
    Atoms
    \cup { Cat(x, y) : x \in Atoms, y \in Atoms }
    \cup { Alt(x, y) : x \in Atoms, y \in Atoms }
    \cup Composite
    \cup { Cat(a, p) : a \in {Lit(97), Lit(98)}, p \in Composite }
    \cup { Cat(p, a) : a \in {Lit(97), Lit(98)}, p \in Composite }
    \cup { Alt(a, p) : a \in {Lit(97), Lit(98)}, p \in Composite }

\* The buffers searched: every buffer of up to MaxGrepBuf bytes over two
\* letters and the line terminator, and two longer ones.
MaxGrepBuf == 3

Buffers ==
    UNION { [1..n -> {97, 98, 10}] : n \in 0..MaxGrepBuf }
    \cup { <<97, 10, 98, 10, 97, 97, 10>>, <<10, 10, 97, 98, 10, 98>> }

LiteralNotAllowed(byte) == [kind |-> "LiteralNotAllowed", arg |-> byte]

NoPrefilter == [some |-> FALSE, set |-> {}]

\* gs.st: "new" (the builder is given the pattern), "failed" (build returned
\* gs.err), "iter" (iter(buf) will call read_match at gs.start), "done"
\* (read_match returned None).
GrepInit ==
    \E pat \in Patterns, buf \in Buffers :
        gs = [st |-> "new", pat |-> pat, buf |-> buf, pre |-> NoPrefilter,
              err |-> NoResult, start |-> 0, matches |-> <<>>, low |-> 0]

\* GrepBuilder::build: the non-newline asserter, then the literal extractor.
Build ==
    /\ gs.st = "new"
    /\ gs' = IF ~nonl(gs.pat, Terminator)
               THEN [gs EXCEPT !.st = "failed", !.err = LiteralNotAllowed(Terminator)]
               ELSE [gs EXCEPT !.st = "iter", !.pre = Prefilter(gs.pat, Terminator)]
    /\ UNCHANGED <<zipVars, magicVars, px, dec>>

\* Iter::next: one call of read_match, from where the last match ended.
IterNext ==
    /\ gs.st = "iter"
    /\ LET m == read_match(gs.pat, gs.pre, Terminator, gs.buf, gs.start)
       IN  gs' = IF m.some
                   THEN [gs EXCEPT !.matches = Append(gs.matches, <<m.start, m.end>>),
                                   !.start = Resume(m), !.low = m.low]
                   ELSE [gs EXCEPT !.st = "done", !.low = m.low]
    /\ UNCHANGED <<zipVars, magicVars, px, dec>>

GrepNext == Build \/ IterNext

GrepIdle == gs = [st |-> "idle"]

DecIdle == dec = [st |-> "idle"]

\* The variables of the part a specification leaves alone.
MagicIdle ==
    /\ src = <<>> /\ ipos = 0 /\ faults = 0 /\ mstate = "idle" /\ mpos = 0 /\ mlim = 0
    /\ mbuf = <<0, 0, 0, 0>> /\ got = <<>> /\ last = NoRead /\ ilast = ReadErr("none")

vars == <<zipVars, magicVars, px, dec, gs>>

\* for_each_entry on streams of records and pieces.
Init == ZipInit /\ family = "records" /\ MagicIdle /\ ParseIdle /\ DecIdle /\ GrepIdle

Next == ZipNext

Spec == Init /\ [][Next]_vars

\* for_each_entry on one entry of each kind of header.
InitHeaders == ZipInit /\ family = "headers" /\ MagicIdle /\ ParseIdle /\ DecIdle /\ GrepIdle

SpecHeaders == InitHeaders /\ [][Next]_vars

\* for_each_entry on one entry of each kind of name and extras.
InitExtras == ZipInit /\ family = "extras" /\ MagicIdle /\ ParseIdle /\ DecIdle /\ GrepIdle

SpecExtras == InitExtras /\ [][Next]_vars

\* A MagicReader over each stream, constructed and then read.
InitMagic == MagicInit /\ ZipInit /\ family = "none" /\ ParseIdle /\ DecIdle /\ GrepIdle

SpecMagic == InitMagic /\ [][MagicNext]_vars

\* parse_extra applied to each extras slice.
InitParse == ParseInit /\ ZipInit /\ family = "none" /\ MagicIdle /\ DecIdle /\ GrepIdle

SpecParse == InitParse /\ [][ParseNext]_vars

\* get_reader on each path.
InitDec == DecInit /\ ZipInit /\ family = "none" /\ MagicIdle /\ ParseIdle /\ GrepIdle

SpecDec == InitDec /\ [][DecNext]_vars

\* A searcher built from each pattern, iterated over each buffer.
InitGrep == GrepInit /\ ZipInit /\ family = "none" /\ MagicIdle /\ ParseIdle /\ DecIdle

SpecGrep == InitGrep /\ [][GrepNext]_vars

\* The decoder never meets a compressed block: the streams stay within
\* what Inflate models.
StoredBlocksOnly ==
    (pc = "callback" /\ entry.method = Good("Deflate")) => Decoding.status # "huffman"

TypeOK ==
    /\ pos >= 0
    /\ pc \in {"sig", "callback", "done"}
    /\ (pc = "done") = (result # NoResult)

(***************************************************************************)
(* The claims about for_each_entry.  `call` is the latest callback          *)
(* invocation; call.sigIdx is the number of record signatures read when it  *)
(* was made, so sigs[call.sigIdx + 1] is where the next one was read.       *)
(***************************************************************************)
\* The record signatures as the bytes of the stream, least significant first.
LocalSignature == <<80, 75, 3, 4>>                       \* 0x04034B50
CentralDirectorySignatures ==
    { <<80, 75, 1, 2>>,                                  \* 0x02014B50
      <<80, 75, 5, 6>>,                                  \* 0x06054B50
      <<80, 75, 6, 6>>,                                  \* 0x06064B50
      <<80, 75, 6, 7>>,                                  \* 0x07064B50
      <<80, 75, 6, 8>> }                                 \* 0x08064B50

\* A signature was read after the latest callback returned.
NextSignatureRead == Len(sigs) > call.sigIdx

\* for_each_entry returned in the turn of the loop of the latest callback.
EndedInTurn == pc = "done" /\ Len(sigs) = call.sigIdx

\* C1: for every non-streaming entry (flag bit 3 clear) whose callback reads
\* any number of bytes from its handle and returns Continue, the rest of the
\* body is skipped: drain is called, and the next record signature is read
\* at exactly (end of extras + compressed size), whether the entry is stored,
\* deflated or carries a per-entry error.
C1_DrainReachesNextSignature ==
    (call.n > 0 /\ ~call.streaming /\ call.ret = Continue) =>
        /\ call.drained
        /\ call.dataStart = call.hdrAt + call.hdrLen
        /\ NextSignatureRead =>
             U64(sigs[call.sigIdx + 1] - (call.hdrAt + call.hdrLen)) = call.compressed

\* A deflated entry of which the callback read one byte, the decoder having
\* taken less than the compressed size, and the next signature was read.
C1_Witness ==
    /\ call.n > 0 /\ ~call.streaming /\ call.ret = Continue
    /\ call.method = Good("Deflate")
    /\ call.k = 1
    /\ U64(call.consumed) # call.compressed
    /\ NextSignatureRead

\* C3: at every record boundary a 4-byte little-endian signature is read;
\* 0x04034B50 starts the processing of a local file entry (its header is read
\* and the callback comes next, unless the stream ends inside the header);
\* each of the five central-directory signatures ends the iteration with
\* Ok(()) and no callback; any other value sig ends it with
\* Err(UnknownRecord(sig)) and no callback.
C3_SignatureDispatch ==
    Len(sigs) > 0 =>
        /\ (lastSig = LocalSignature /\ NextSignatureRead) =>
               \/ pc = "callback" /\ hdrAt = sigs[Len(sigs)] /\ headers = Len(sigs)
               \/ pc = "done" /\ result = Err("IoError", "UnexpectedEof")
        /\ lastSig \in CentralDirectorySignatures =>
               /\ pc = "done" /\ result = Ok
               /\ pos = sigs[Len(sigs)] + 4
               /\ NextSignatureRead
        /\ lastSig \notin CentralDirectorySignatures \cup {LocalSignature} =>
               /\ pc = "done" /\ result = Err("UnknownRecord", lastSig)
               /\ pos = sigs[Len(sigs)] + 4
               /\ NextSignatureRead

\* The extra-data signature 0x08064B50 read after an entry.
C3_Witness ==
    /\ call.n > 0 /\ NextSignatureRead
    /\ lastSig = <<80, 75, 6, 8>>
    /\ result = Ok

SkippedAfterError ==
    /\ call.delivered = call.method
    /\ call.drained
    /\ EndedInTurn => result = Err("IoError", "UnexpectedEof")
    /\ NextSignatureRead =>
         U64(sigs[call.sigIdx + 1] - call.dataStart) = call.compressed

\* C5 as stated: every entry with a per-entry error whose callback returns
\* Continue is skipped, whatever its flag bits.
C5_ErrorEntrySkipped ==
    (call.n > 0 /\ ~call.method.ok /\ call.ret = Continue) => SkippedAfterError

\* C5, amended: every entry with flag bit 3 clear whose header yields a
\* per-entry error has the error delivered to the callback and, if the
\* callback returns Continue, is skipped.
C5_KnownSizeErrorEntrySkipped ==
    (call.n > 0 /\ ~call.method.ok /\ ~call.streaming /\ call.ret = Continue) =>
        SkippedAfterError

\* An entry of unknown method, skipped, and the next record reached.
C5_Witness ==
    /\ call.n > 0 /\ ~call.streaming /\ call.ret = Continue
    /\ call.method = Bad("UnknownMethod", 9)
    /\ NextSignatureRead

\* The latest callback was for a streaming Deflate entry and returned Continue.
StreamedOn ==
    call.n > 0 /\ call.streaming /\ call.method = Good("Deflate") /\ call.ret = Continue

\* C6: for every streaming (flag bit 3 set) Deflate entry whose callback
\* returns Continue, the loop goes on past the entry only if the decoder was
\* drained to its end-of-stream marker and the raw bytes it consumed are as
\* many as the compressed size read from the data descriptor, the cursor
\* being past that descriptor; if the two differ, for_each_entry returns
\* Err(DataDescriptorMismatch) in that turn, with no further callback.
C6_DescriptorMatchesConsumed ==
    StreamedOn =>
        /\ (pc = "sig" \/ NextSignatureRead) =>
               /\ call.drained /\ call.deflate = "end" /\ call.desc = "read"
               /\ U64(call.total) = call.descCompressed
               /\ call.consumed <= call.total
               /\ NextSignatureRead =>
                    sigs[call.sigIdx + 1] = call.dataStart + call.total + call.descLen
        /\ (call.desc = "read" /\ U64(call.total) # call.descCompressed) =>
               /\ EndedInTurn
               /\ result = Err("DataDescriptorMismatch", <<>>)

\* A streaming entry of which the callback read one byte, passed with a
\* descriptor that matches, and the next signature read.
C6_Witness ==
    /\ StreamedOn /\ call.k = 1 /\ call.consumed < call.total
    /\ call.desc = "read" /\ U64(call.total) = call.descCompressed
    /\ NextSignatureRead

\* The entry is well formed as far as the callback's handle goes: a deflated
\* body runs to its end-of-stream marker.
WellFormed == call.method = Good("Deflate") => call.deflate = "end"

\* What C7 says follows a Stop: Ok(()), and nothing read after the entry's
\* body: no descriptor, no signature, no callback.
StoppedClean ==
    /\ EndedInTurn
    /\ result = Ok
    /\ call.desc = "none"
    /\ headers = call.n

\* C7 as stated: Stop for a well-formed Store or Deflate entry, streaming or
\* not, makes for_each_entry return Ok(()).
C7_StopReturnsOk ==
    (call.n > 0 /\ call.ret = Stop /\ call.method.ok /\ WellFormed) => StoppedClean

\* C7, amended: when the callback returns Ok(Stop) for a well-formed entry it
\* was given a read handle for (a Store or Deflate entry with flag bit 3
\* clear, or a Deflate entry with flag bit 3 set), for_each_entry returns
\* Ok(()), the callback is not invoked again and no later record signature or
\* data descriptor is read.
C7_StopOnHandleReturnsOk ==
    (call.n > 0 /\ call.ret = Stop /\ call.delivered.ok /\ WellFormed) => StoppedClean

\* Stop after one byte read from a streaming Deflate entry.
C7_Witness ==
    /\ call.n > 0 /\ call.ret = Stop /\ call.delivered.ok /\ WellFormed
    /\ call.streaming /\ call.k = 1
    /\ result = Ok

\* Where the entry of the latest callback ends: after `compressed` bytes of
\* body, or after the deflate stream and the data descriptor.
EntryEndsAt(at) ==
    IF call.streaming
      THEN call.desc = "read" /\ at = call.dataStart + call.total + call.descLen
      ELSE U64(at - call.dataStart) = call.compressed

\* C8: the callback is invoked exactly once per local file header processed,
\* in the order of the headers in the stream (the n-th invocation is for the
\* n-th record signature read), and the invocation for entry i+1 comes only
\* after that for entry i returned Continue and the body (and descriptor, if
\* any) of entry i was consumed to its end.
C8_OncePerHeaderInOrder ==
    /\ headers = call.n + (IF pc = "callback" THEN 1 ELSE 0)
    /\ call.n > 0 => (call.sigIdx = call.n /\ call.hdrAt = sigs[call.n])
    /\ (pc = "callback" /\ call.n > 0) =>
           /\ call.ret = Continue
           /\ call.drained
           /\ Len(sigs) = call.n + 1
           /\ hdrAt = sigs[call.n + 1]
           /\ EntryEndsAt(hdrAt)

\* A second entry about to be handed to the callback after a streaming one.
C8_Witness ==
    /\ pc = "callback" /\ call.n = 1 /\ headers = 2
    /\ call.streaming /\ call.k = 1

\* C9: if the callback returns an I/O error, for any entry in either branch,
\* for_each_entry returns Err(IoError(that error)) at once: nothing is
\* drained, no descriptor and no signature is read, and the callback is not
\* invoked again.
C9_CallbackErrorPropagates ==
    (call.n > 0 /\ ~call.ret.ok) =>
        /\ EndedInTurn
        /\ result = Err("IoError", call.ret.v)
        /\ ~call.drained
        /\ call.desc = "none"
        /\ pos = call.dataStart + call.consumed
        /\ headers = call.n

\* NotFound returned for a streaming Deflate entry read in part.
C9_Witness ==
    /\ call.n > 0 /\ call.ret = [ok |-> FALSE, v |-> "NotFound"]
    /\ call.streaming /\ call.method = Good("Deflate") /\ call.k = 1
    /\ result = Err("IoError", "NotFound")

\* Bit b of a flags word, by arithmetic.
FlagSet(flags, b) == (flags \div (2 ^ b)) % 2 = 1

\* C10: the entry result is decided from (version, flags, method) with strict
\* precedence: version > 45 gives NewerVersionNeeded(version); otherwise flag
\* bit 0 gives Encrypted; otherwise flag bit 5 gives Patched; otherwise
\* method 0 gives Store, method 8 gives Deflate and any other method gives
\* UnknownMethod(method).
C10_MethodPrecedence ==
    headers > 0 =>
        LET v == entry.version
            f == entry.flags
            m == entry.method16
            r == entry.method
            plain == v <= 45 /\ ~FlagSet(f, 0) /\ ~FlagSet(f, 5)
        IN  /\ v > 45 => r = Bad("NewerVersionNeeded", v)
            /\ (v <= 45 /\ FlagSet(f, 0)) => r = Bad("Encrypted", 0)
            /\ (v <= 45 /\ ~FlagSet(f, 0) /\ FlagSet(f, 5)) => r = Bad("Patched", 0)
            /\ (plain /\ m = 0) => r = Good("Store")
            /\ (plain /\ m = 8) => r = Good("Deflate")
            /\ (plain /\ m \notin {0, 8}) => r = Bad("UnknownMethod", m)
            /\ call.n > 0 => call.method = r

\* Version 45, encrypted and patched, of an unknown method: Encrypted wins.
C10_Witness ==
    /\ call.n > 0
    /\ entry.version = 45 /\ FlagSet(entry.flags, 0) /\ FlagSet(entry.flags, 5)
    /\ entry.method16 = 9
    /\ call.delivered = Bad("Encrypted", 0)

(***************************************************************************)
(* The claim about MagicReader.                                            *)
(***************************************************************************)
\* C2: for every underlying stream and every sequence of reads on a
\* MagicReader, the bytes returned so far are the first bytes of the stream,
\* in order (the peeked bytes replayed first, once); and when a read into a
\* non-empty buffer returns 0, they are the whole stream.
C2_ReplaysStream ==
    /\ Len(got) <= Len(src)
    /\ got = SubSeq(src, 1, Len(got))
    /\ (last.len > 0 /\ last.ret = ReadOk(0)) => got = src

\* A stream longer than the peeked bytes, read to its end.
C2_Witness ==
    /\ last.len > 0 /\ last.ret = ReadOk(0)
    /\ Len(src) > 4 /\ mlim = 4
    /\ got = src

(***************************************************************************)
(* Further claims about for_each_entry.                                    *)
(***************************************************************************)
\* C11: for a streaming (flag bit 3 set) entry whose method resolves to
\* Store, the callback is invoked once, with Err(UnknownDataSize), and
\* for_each_entry returns in that turn; if the callback returned Continue or
\* Stop it returns Err(UnknownDataSize), the cursor still at the end of the
\* extras, nothing drained and no descriptor or signature read.
C11_StreamingStoreFails ==
    (call.n > 0 /\ call.streaming /\ call.method = Good("Store")) =>
        /\ call.delivered = Bad("UnknownDataSize", 0)
        /\ call.k = 0
        /\ EndedInTurn
        /\ headers = call.n
        /\ call.ret.ok =>
             /\ result = Err("UnknownDataSize", <<>>)
             /\ pos = call.dataStart
             /\ ~call.drained
             /\ call.desc = "none"

\* A streaming Store entry whose callback returned Stop.
C11_Witness ==
    /\ call.n > 0 /\ call.streaming /\ call.method = Good("Store")
    /\ call.ret = Stop
    /\ result = Err("UnknownDataSize", <<>>)

(***************************************************************************)
(* The claims about parse_extra.  What the extras hold is worked out here  *)
(* from the records as the format lays them out, and compared with what    *)
(* parse_extra returned.                                                   *)
(***************************************************************************)
TagOf(rec) == rec[1] + 256 * rec[2]
PayloadOf(rec) == SubSeq(rec, 5, Len(rec))
IsZip64(rec) == TagOf(rec) = 1
IsUnicodePath(rec) == TagOf(rec) = 28789

\* CRC-32/IEEE of the two header names: 0xE8B7BE43 and 0x72D9B9F8.
NameCrc(name) == IF name = <<97>> THEN <<67, 190, 183, 232>> ELSE <<248, 185, 217, 114>>

\* A Unicode-path record of version 1 whose CRC is that of the header name.
Adopted(rec, name) ==
    /\ IsUnicodePath(rec)
    /\ Len(PayloadOf(rec)) >= 5
    /\ PayloadOf(rec)[1] = 1
    /\ SubSeq(PayloadOf(rec), 2, 5) = NameCrc(name)

\* A record whose payload is too short for the fields read from it.
Stunted(rec) ==
    \/ IsZip64(rec) /\ Len(PayloadOf(rec)) < 16
    \/ IsUnicodePath(rec) /\ Len(PayloadOf(rec)) = 0
    \/ IsUnicodePath(rec) /\ Len(PayloadOf(rec)) < 5 /\ PayloadOf(rec)[1] = 1

\* The records before the first stunted one.
Sound(recs) ==
    LET bad == {i \in 1..Len(recs) : Stunted(recs[i])}
    IN  IF bad = {} THEN recs
        ELSE SubSeq(recs, 1, (CHOOSE i \in bad : \A j \in bad : i <= j) - 1)

LastOf(set) == CHOOSE i \in set : \A j \in set : j <= i

\* The Unicode path of the last adopted record, if any.
ExpectedPath(recs, name) ==
    LET a == {i \in 1..Len(recs) : Adopted(recs[i], name)}
    IN  IF a = {} THEN [some |-> FALSE, bytes |-> <<>>]
        ELSE [some |-> TRUE,
              bytes |-> SubSeq(PayloadOf(recs[LastOf(a)]), 6, Len(PayloadOf(recs[LastOf(a)])))]

\* The sizes of the last ZIP64 record, if any: the first 16 bytes of its payload.
ExpectedZip64(recs) ==
    LET z == {i \in 1..Len(recs) : IsZip64(recs[i])}
    IN  IF z = {} THEN [some |-> FALSE, uncompressed |-> <<>>, compressed |-> <<>>]
        ELSE [some |-> TRUE,
              uncompressed |-> SubSeq(PayloadOf(recs[LastOf(z)]), 1, 8),
              compressed |-> SubSeq(PayloadOf(recs[LastOf(z)]), 9, 16)]

\* C13: parse_extra adopts a Unicode-path (tag 0x7075) record if and only if
\* its version byte is 1 and its CRC-32 is that of the raw header name; the
\* adopted path is the payload after the 5-byte prefix; a record of another
\* version or CRC leaves unicode_path as it was, and the records after it are
\* parsed.
C13_UnicodePathAdoption ==
    px.st = "done" =>
        /\ px.out.extra.unicode_path = ExpectedPath(Sound(px.recs), px.name_buf)
        /\ (px.tail = <<>> /\ Sound(px.recs) = px.recs) => px.out.st = "ok"

\* A Unicode-path record that is not adopted, then one that is.
C13_Witness ==
    /\ px.st = "done" /\ Len(px.recs) = 2
    /\ IsUnicodePath(px.recs[1]) /\ ~Stunted(px.recs[1]) /\ ~Adopted(px.recs[1], px.name_buf)
    /\ Adopted(px.recs[2], px.name_buf)
    /\ px.out.extra.unicode_path = [some |-> TRUE, bytes |-> <<98>>]

\* recs with the records at i and i + 1 exchanged.
SwapAt(recs, i) ==
    [j \in 1..Len(recs) |-> IF j = i THEN recs[i + 1] ELSE IF j = i + 1 THEN recs[i] ELSE recs[j]]

\* What C14 says of an extras slice of whole records: exchanging two neighbours of distinct tags changes nothing, and the two
\* fields are those of the ZIP64 and valid Unicode-path records, whatever
\* else lies between them.
OrderFree ==
    /\ \A i \in 1..(Len(px.recs) - 1) :
         TagOf(px.recs[i]) # TagOf(px.recs[i + 1]) =>
             parse_extra(Flatten(SwapAt(px.recs, i)), px.name_buf, NoExtra) = px.out
    /\ px.out.extra.zip64 = ExpectedZip64(px.recs)
    /\ px.out.extra.unicode_path = ExpectedPath(px.recs, px.name_buf)

\* C14 as stated: well-formed means that each declared size is the payload
\* length and a ZIP64 payload has at least 16 bytes.
C14_OrderIndependent ==
    (/\ px.st = "done" /\ px.tail = <<>>
     /\ \A i \in 1..Len(px.recs) : IsZip64(px.recs[i]) => Len(PayloadOf(px.recs[i])) >= 16)
        => OrderFree

\* C14, amended: for every extras slice of records whose declared size is
\* their payload length, with ZIP64 payloads of at least 16 bytes and
\* Unicode-path payloads of at least 1 byte, and of at least 5 bytes when
\* the version byte is 1, the result of parse_extra does not depend on the
\* order of records with distinct tags; unknown tags and ZIP64 bytes past
\* the first 16 are skipped.
C14_OrderIndependentOfSoundRecords ==
    (/\ px.st = "done" /\ px.tail = <<>>
     /\ \A i \in 1..Len(px.recs) : ~Stunted(px.recs[i]))
        => (px.out.st = "ok" /\ OrderFree)

\* A valid Unicode-path record before a ZIP64 record with 18 payload bytes.
C14_Witness ==
    /\ px.st = "done" /\ px.tail = <<>> /\ Len(px.recs) = 2
    /\ Adopted(px.recs[1], px.name_buf)
    /\ IsZip64(px.recs[2]) /\ Len(PayloadOf(px.recs[2])) = 18
    /\ px.out.extra.zip64.some /\ px.out.extra.unicode_path.some

(***************************************************************************)
(* The claims about names, extras and sizes in for_each_entry.  `entry`    *)
(* holds the latest header read: its raw fields and what was made of them. *)
(***************************************************************************)
\* The callback was called for the latest header.
Handed == call.n > 0 /\ call.n = headers

\* C12: the entry name passed to the callback is, if flag bit 11 is set, the
\* lossy UTF-8 decoding of the raw header name (even with a validated
\* Unicode path); otherwise, with a validated Unicode path, the lossy UTF-8
\* decoding of that path; otherwise the raw name mapped byte by byte through
\* the CP437 table, so of name_len characters.
C12_NamePrecedence ==
    Handed =>
        /\ call.name = entry.name
        /\ FlagSet(entry.flags, 11) => call.name = Utf8Lossy(entry.name_buf)
        /\ (~FlagSet(entry.flags, 11) /\ entry.extra.unicode_path.some) =>
               call.name = Utf8Lossy(entry.extra.unicode_path.bytes)
        /\ (~FlagSet(entry.flags, 11) /\ ~entry.extra.unicode_path.some) =>
               /\ Len(call.name) = Len(entry.name_buf)
               /\ \A i \in 1..Len(call.name) : call.name[i] = to_char(entry.name_buf[i])

\* Bit 11 set, the header name 82 61 (not UTF-8) and a validated Unicode
\* path "cé": the name is U+FFFD "a".
C12_Witness ==
    /\ Handed
    /\ FlagSet(entry.flags, 11)
    /\ entry.name_buf = <<130, 97>>
    /\ entry.extra.unicode_path = [some |-> TRUE, bytes |-> <<99, 195, 169>>]
    /\ call.name = <<65533, 97>>

\* The records of an extras slice that are wholly in it, and what is left
\* after them.
RECURSIVE WholeRecords(_)
WholeRecords(buf) ==
    IF Len(buf) < 4 \/ Len(buf) < 4 + buf[3] + 256 * buf[4] THEN <<>>
    ELSE <<SubSeq(buf, 1, 4 + buf[3] + 256 * buf[4])>>
         \o WholeRecords(SubSeq(buf, 5 + buf[3] + 256 * buf[4], Len(buf)))

CutTail(buf) == SubSeq(buf, Len(Flatten(WholeRecords(buf))) + 1, Len(buf))

\* C15: for every extras slice that ends inside a record (in its tag, its
\* size or its payload, whatever the record), header processing does not
\* fail: the entry is handed to the callback, and what the whole records
\* before the cut set is kept.
C15_TruncatedExtrasTolerated ==
    (headers > 0 /\ CutTail(entry.extra_buf) # <<>>) =>
        LET whole == Sound(WholeRecords(entry.extra_buf))
        IN  /\ pc = "callback" \/ Handed
            /\ result.kind # "panic"
            /\ entry.extra.unicode_path = ExpectedPath(whole, entry.name_buf)
            /\ ExpectedZip64(whole).some => entry.extra.zip64.some

\* C16: the compressed size of an entry is the header's 32-bit field widened
\* to 64 bits, except that a field equal to 0xFFFFFFFF is replaced by the
\* ZIP64 record's value when a ZIP64 record was parsed; the uncompressed size
\* follows the same rule on its own; and the widened or replaced compressed
\* size is the body length of a non-streaming entry.
C16_SizeReconciliation ==
    headers > 0 =>
        LET z == entry.extra.zip64
            ones == <<255, 255, 255, 255>>
        IN  /\ entry.compressed =
                 IF entry.comp32 = ones /\ z.some THEN z.compressed
                 ELSE entry.comp32 \o <<0, 0, 0, 0>>
            /\ entry.uncompressed =
                 IF entry.uncomp32 = ones /\ z.some THEN z.uncompressed
                 ELSE entry.uncomp32 \o <<0, 0, 0, 0>>
            /\ (Handed /\ ~call.streaming) => call.compressed = entry.compressed
            /\ (Handed /\ ~call.streaming /\ call.ret = Continue /\ NextSignatureRead) =>
                 U64(sigs[call.sigIdx + 1] - call.dataStart) = entry.compressed

\* A header with compressed size 0xFFFFFFFF and uncompressed size 2, a ZIP64
\* record giving 3 and 5: the body is 3 bytes long, the uncompressed size 2.
C16_Witness ==
    /\ Handed /\ ~call.streaming /\ call.ret = Continue /\ NextSignatureRead
    /\ entry.comp32 = <<255, 255, 255, 255>> /\ entry.uncomp32 = <<2, 0, 0, 0>>
    /\ entry.extra.zip64.some
    /\ sigs[call.sigIdx + 1] = call.dataStart + 3
    /\ entry.uncompressed = <<2, 0, 0, 0, 0, 0, 0, 0>>

(***************************************************************************)
(* Further claims about MagicReader.                                       *)
(***************************************************************************)
\* C17: magic() of a reader over a stream (from_slice of the bytes peeked,
\* the first 4 of the stream or all of a shorter one) is Gzip iff the stream
\* starts with 1F 8B, Zip iff it starts with 50 4B 03 04 or 50 4B 05 06, and
\* Unknown for every other stream, the empty one and the proper prefixes of
\* a ZIP signature among them.
C17_MagicOfStream ==
    mstate = "ready" =>
        /\ magic = "Gzip" <=> StartsWith(src, <<31, 139>>)
        /\ magic = "Zip" <=> \/ StartsWith(src, <<80, 75, 3, 4>>)
                             \/ StartsWith(src, <<80, 75, 5, 6>>)
        /\ magic = "Unknown" <=>
             ~ \/ StartsWith(src, <<31, 139>>)
               \/ StartsWith(src, <<80, 75, 3, 4>>)
               \/ StartsWith(src, <<80, 75, 5, 6>>)
        /\ src \in {<<>>, <<31>>, <<80>>, <<80, 75>>, <<80, 75, 3>>, <<80, 75, 5>>}
             => magic = "Unknown"
        /\ from_slice(<<31, 139>>) = "Gzip"

\* A stream that starts as a data descriptor does, PK 07 08: Unknown.
C17_Witness ==
    /\ mstate = "ready"
    /\ Len(src) >= 4 /\ SubSeq(src, 1, 4) = <<80, 75, 7, 8>>
    /\ magic = "Unknown"

\* C18: on a reader as new() left it, whose inner reader fills what it is
\* given as far as bytes remain, one read(buf) returns min(len(buf), stream
\* length) bytes, the first of the stream: peeked bytes and bytes of the
\* inner reader come in the same call.
C18_FirstReadCrossesPeek ==
    (last.fresh /\ last.filled) =>
        /\ last.ret = ReadOk(Min(last.len, Len(src)))
        /\ got = Slice(src, 0, Min(last.len, Len(src)))

\* A stream of 6 bytes read into a buffer of 5: 4 peeked bytes and 1 more.
C18_Witness ==
    /\ last.fresh /\ last.filled
    /\ Len(src) = 6 /\ last.len = 5 /\ mlim = 4
    /\ last.ret = ReadOk(5)

(***************************************************************************)
(* The claims about get_reader.                                            *)
(***************************************************************************)
\* C19: for every path and either value of the flag, get_reader returns the
\* child's stdout or None: it never panics, not for a path that matches none
\* of the compression globs, nor for one whose last component has no
\* extension.
C19_NeverPanics == dec.st # "panic"

\* A path that matches no glob, "a.txt", on which get_reader has run.
C19_Witness ==
    /\ dec.st \in {"done", "panic"}
    /\ dec.path = <<"a", ".", "t", "x", "t">>
    /\ ~is_compressed(dec.path)

\* C20: for a path of a supported format that is no tar archive, get_reader
\* returns the child's stdout iff the child was spawned and its stderr, read
\* to its end before anything is returned, was empty; after a failed spawn
\* or a non-empty stderr it returns None; and it prints the warning exactly
\* when stderr was not empty and the flag is false.
C20_HandleIffCleanChild ==
    (is_supported_compression_format(dec.path) /\ ~is_tar_archive(dec.path)) =>
        /\ dec.st \in {"spawn", "reading"} => dec.ret = "none" /\ ~dec.warned
        /\ dec.ret = "stdout" <=>
             dec.st = "done" /\ dec.spawned /\ dec.eof /\ dec.stderr = <<>>
        /\ (dec.st = "done" /\ ~dec.spawned) => dec.ret = "None"
        /\ (dec.st = "done" /\ dec.stderr # <<>>) =>
             dec.ret = "None" /\ dec.eof /\ dec.error = dec.stderr
        /\ dec.warned <=>
             dec.st = "done" /\ dec.eof /\ dec.stderr # <<>> /\ ~dec.no_messages

\* "a.gz", gunzip spawned, two bytes on its stderr read in two reads, the
\* flag false: None and the warning.
C20_Witness ==
    /\ dec.st = "done"
    /\ dec.path = <<"a", ".", "g", "z">> /\ dec.cmd = "gunzip"
    /\ dec.spawned /\ Len(dec.stderr) = 2 /\ dec.eof
    /\ ~dec.no_messages
    /\ dec.ret = "None" /\ dec.warned

\* The globs of tar archives and of single streams, as the suffixes they
\* stand for.
TarSuffixes ==
    { <<".", "t", "a", "r", ".", "g", "z">>, <<".", "t", "a", "r", ".", "x", "z">>,
      <<".", "t", "a", "r", ".", "b", "z", "2">>, <<".", "t", "g", "z">>,
      <<".", "t", "x", "z">>, <<".", "t", "b", "z", "2">> }

StreamSuffixes ==
    { <<".", "g", "z">>, <<".", "b", "z", "2">>, <<".", "x", "z">>, <<".", "l", "z", "m", "a">> }

TarPath == \E g \in TarSuffixes : EndsWith(dec.path, g)

StreamPath == ~TarPath /\ \E g \in StreamSuffixes : EndsWith(dec.path, g)

\* C21: for every path matching one of *.tar.gz, *.tar.xz, *.tar.bz2, *.tgz,
\* *.txz, *.tbz2, get_reader returns None and spawns no child: the tar check
\* comes before the single-stream globs, no command is ever chosen.
C21_TarReturnsNothing ==
    TarPath =>
        /\ dec.st \in {"new", "done"}
        /\ dec.cmd = "none" /\ dec.args = <<>>
        /\ dec.children = 0 /\ ~dec.spawned
        /\ dec.st = "done" => dec.ret = "None" /\ dec.debug = "tar" /\ ~dec.warned

\* "a.tar.gz" and "a.tgz", each after get_reader returned.
C21_Witness ==
    /\ dec.st = "done" /\ dec.ret = "None" /\ dec.children = 0
    /\ dec.path \in { <<"a", ".", "t", "a", "r", ".", "g", "z">>, <<"a", ".", "t", "g", "z">> }

\* The command the claim gives for a path.
CommandFor(path) ==
    CASE EndsWith(path, <<".", "g", "z">>) -> "gunzip"
      [] EndsWith(path, <<".", "b", "z", "2">>) -> "bunzip2"
      [] EndsWith(path, <<".", "x", "z">>) -> "unxz"
      [] EndsWith(path, <<".", "l", "z", "m", "a">>) -> "unlzma"
      [] OTHER -> "none"

\* C22: for every non-tar path matching *.gz, *.bz2, *.xz or *.lzma,
\* get_reader spawns one child, its command chosen by the extension (gz:
\* gunzip, bz2: bunzip2, xz: unxz, lzma: unlzma), its arguments "-c" and then
\* the path; every such path has an extension with a command.
C22_DispatchByExtension ==
    (StreamPath /\ dec.st # "new") =>
        /\ dec.st # "panic" \/ dec.spawned
        /\ dec.cmd = CommandFor(dec.path)
        /\ dec.args = <<"-c", dec.path>>
        /\ dec.children <= 1
        /\ dec.spawned => dec.children = 1

\* ".gz", on which get_reader has run.
C22_Witness ==
    /\ StreamPath /\ dec.st # "new"
    /\ dec.path = <<".", "g", "z">>

\* get_reader waits in read_to_end for more of stderr or its end, while the
\* child waits for room in the pipe of its stdout.
Stuck ==
    /\ dec.st = "reading"
    /\ ~dec.errClosed /\ Len(dec.error) = Len(dec.stderr)
    /\ dec.outLeft > 0 /\ dec.pipe = PipeCap
    /\ ~dec.early

\* C23: with stderr drained to its end before stdout is returned, and stdout
\* a bounded pipe nobody reads until then, a child that writes more to
\* stdout than the pipe holds before it closes stderr blocks on stdout while
\* get_reader blocks on stderr: from that state on get_reader never returns.
C23_DeadlockNeverReturns ==
    [][Stuck => (dec'.ret = "none" /\ (Stuck' \/ dec'.st = "panic"))]_vars

\* "a.gz": gunzip has filled the pipe with more to write, its stderr is
\* empty and open.
C23_Witness ==
    /\ Stuck
    /\ dec.path = <<"a", ".", "g", "z">> /\ dec.stderr = <<>> /\ dec.outLeft = MaxOut - PipeCap

\* C30: after a streaming Deflate entry's decoder is drained, the data
\* descriptor is one u32 word, which is the signature 0x08074B50 followed by
\* a u32 crc32 or else the crc32 itself, then the compressed and the
\* uncompressed size, u32 each without a ZIP64 record in the entry's extras
\* and u64 each with one; the next record signature is read right after it:
\* 12 or 16 bytes (no ZIP64), 20 or 24 bytes (ZIP64) after the end of the
\* deflate stream.
C30_DescriptorLayout ==
    (StreamedOn /\ Handed /\ call.desc = "read") =>
        LET signed == Slice(call.descBytes, 0, 4) = <<80, 75, 7, 8>>
            zip64  == entry.extra.zip64.some
            o      == IF signed THEN 8 ELSE 4
        IN  /\ call.deflate = "end" /\ call.drained
            /\ Len(call.descBytes) = call.descLen
            /\ call.descLen = CASE ~signed /\ ~zip64 -> 12
                                [] signed /\ ~zip64 -> 16
                                [] ~signed /\ zip64 -> 20
                                [] signed /\ zip64 -> 24
            /\ call.descCompressed =
                 IF zip64 THEN Slice(call.descBytes, o, 8)
                 ELSE Slice(call.descBytes, o, 4) \o <<0, 0, 0, 0>>
            /\ NextSignatureRead =>
                 sigs[call.sigIdx + 1] = call.dataStart + call.total + call.descLen

\* An entry with a ZIP64 record and a descriptor without signature: the
\* next signature is read 20 bytes after the deflate stream.
C30_Witness ==
    /\ StreamedOn /\ Handed /\ call.desc = "read" /\ NextSignatureRead
    /\ entry.extra.zip64.some
    /\ Slice(call.descBytes, 0, 4) = <<9, 0, 0, 0>>
    /\ sigs[call.sigIdx + 1] = call.dataStart + call.total + 20

(***************************************************************************)
(* The claims about the line searcher.  Offsets count from 0: the byte at  *)
(* offset i of gs.buf is gs.buf[i + 1].                                    *)
(***************************************************************************)
Yielded == { gs.matches[k] : k \in 1..Len(gs.matches) }

Searching == gs.st \in {"iter", "done"}

\* The regex matches somewhere within buf[from..to).
MatchesWithin(from, to) ==
    \E i \in from..to : \E j \in i..to : Matches(gs.pat, SubSeq(gs.buf, i + 1, j))

\* The lines of the buffer, each with its terminator when it has one.
LinesOf(buf) ==
    { <<s, e>> \in (0..Len(buf)) \X (1..Len(buf)) :
        /\ s < e
        /\ s = 0 \/ buf[s] = Terminator
        /\ e = Len(buf) \/ buf[e] = Terminator
        /\ \A i \in (s + 1)..(e - 1) : buf[i] # Terminator }

MatchingLines == { l \in LinesOf(gs.buf) : MatchesWithin(l[1], l[2]) }

\* C24: every match yielded over a buffer is line-aligned and real: start
\* is 0 or the byte before it is the line terminator; end is the length of
\* the buffer or the byte before it is the line terminator; no byte from
\* start to before end - 1 is the line terminator; and the regex matches
\* somewhere within buf[start..end].
C24_MatchIsOneLine ==
    Searching =>
        \A m \in Yielded :
            /\ 0 <= m[1] /\ m[1] < m[2] /\ m[2] <= Len(gs.buf)
            /\ m[1] = 0 \/ gs.buf[m[1]] = Terminator
            /\ m[2] = Len(gs.buf) \/ gs.buf[m[2]] = Terminator
            /\ \A i \in m[1]..(m[2] - 2) : gs.buf[i + 1] # Terminator
            /\ MatchesWithin(m[1], m[2])

\* "b\na": the pattern a yields the last line, which starts after a
\* terminator and ends with the buffer.
C24_Witness ==
    /\ gs.st = "done"
    /\ gs.pat = Lit(97) /\ gs.buf = <<98, 10, 97>>
    /\ gs.matches = << <<2, 3>> >>

\* C25: iter yields matches in strictly ascending start order with no
\* overlap: each scan resumes at the end of the match before, so the end of
\* a match is at most the start of the next, and no offset inside a line
\* yielded before is examined again.
C25_AscendingNoOverlap ==
    Searching =>
        /\ \A k \in 1..(Len(gs.matches) - 1) :
             /\ gs.matches[k][1] < gs.matches[k + 1][1]
             /\ gs.matches[k][2] <= gs.matches[k + 1][1]
        /\ gs.start = IF gs.matches = <<>> THEN 0 ELSE gs.matches[Len(gs.matches)][2]
        /\ (gs.st = "iter" /\ Len(gs.matches) >= 2) =>
             gs.low >= gs.matches[Len(gs.matches) - 1][2]
        /\ (gs.st = "done" /\ gs.matches # <<>>) =>
             gs.low >= gs.matches[Len(gs.matches)][2]

\* Three matches over "a\nb\naa\n" with the pattern [ab], then None.
C25_Witness ==
    /\ gs.st = "done"
    /\ gs.pat = Class({97, 98}) /\ gs.buf = <<97, 10, 98, 10, 97, 97, 10>>
    /\ gs.matches = << <<0, 2>>, <<2, 4>>, <<4, 7>> >>
    /\ gs.low = 7

\* Some string of up to three bytes that the pattern matches holds the line
\* terminator.
CanMatchTerminator ==
    \E s \in UNION { [1..n -> {97, 98, Terminator}] : n \in 1..3 } :
        Matches(gs.pat, s) /\ \E i \in 1..Len(s) : s[i] = Terminator

\* C26: building a searcher fails with LiteralNotAllowed(terminator) for
\* every pattern whose matches can hold the line terminator (a literal of
\* that byte, a class with it, a repetition of such an expression), so that
\* no searcher that was built matches a span holding the line terminator.
C26_TerminatorRejected ==
    /\ (CanMatchTerminator /\ gs.st \notin {"idle", "new"}) =>
           gs.st = "failed" /\ gs.err = [kind |-> "LiteralNotAllowed", arg |-> 10]
    /\ Searching => ~CanMatchTerminator
    /\ gs.st = "failed" => gs.matches = <<>>

\* The pattern a[b\n]*, rejected.
C26_Witness ==
    /\ gs.st = "failed"
    /\ gs.pat = Cat(Lit(97), Star(Class({98, 10})))

\* C27: the sequence iter yields is the lines of the buffer in which the
\* regex matches, each once, as its whole span with the terminator when
\* there is one: no matching line is skipped, a line with several matches
\* is yielded once, a last line without terminator ends at the length of the
\* buffer (the pattern a over "a\nb\naa\n" yields [0,2) and [4,7); the
\* pattern b over "b" yields [0,1)).
C27_ExactlyMatchingLines ==
    /\ gs.st = "iter" =>
         /\ Yielded = { l \in MatchingLines : l[1] < gs.start }
         /\ Cardinality(Yielded) = Len(gs.matches)
    /\ gs.st = "done" =>
         /\ Yielded = MatchingLines
         /\ Cardinality(Yielded) = Len(gs.matches)
         /\ (gs.pat = Lit(97) /\ gs.buf = <<97, 10, 98, 10, 97, 97, 10>>) =>
              gs.matches = << <<0, 2>>, <<4, 7>> >>
         /\ (gs.pat = Lit(98) /\ gs.buf = <<98>>) => gs.matches = << <<0, 1>> >>

\* The pattern a over "a\nb\naa\n": the line "b\n" is not yielded, the
\* line "aa\n" is yielded once.
C27_Witness ==
    /\ gs.st = "done"
    /\ gs.pat = Lit(97) /\ gs.buf = <<97, 10, 98, 10, 97, 97, 10>>
    /\ gs.matches = << <<0, 2>>, <<4, 7>> >>

\* What iter yields from start on with the regex alone.
RECURSIVE PlainIter(_, _, _)
PlainIter(re, buf, start) ==
    LET m == read_match(re, [some |-> FALSE, set |-> {}], Terminator, buf, start)
    IN  IF m.some /\ m.end > start THEN << <<m.start, m.end>> >> \o PlainIter(re, buf, m.end)
        ELSE <<>>

\* C28: searching with the literal prefilter yields the same sequence of
\* matches as searching with the regex alone, for every buffer: every match
\* of the regex holds a literal of the set, so skipping what holds none (and
\* returning None when none occurs in buf[start..]) drops no matching line.
C28_PrefilterEquivalent ==
    (Searching /\ gs.pre.some) =>
        LET plain == PlainIter(gs.pat, gs.buf, 0)
        IN  /\ Len(gs.matches) <= Len(plain)
            /\ gs.matches = SubSeq(plain, 1, Len(gs.matches))
            /\ gs.st = "done" => gs.matches = plain
            /\ \A l \in MatchingLines :
                 \E x \in gs.pre.set :
                   \E i \in l[1]..(l[2] - Len(x)) : SubSeq(gs.buf, i + 1, i + Len(x)) = x

\* The pattern ab* with the literal a, over "\n\nab\nb": the lines without
\* an a are skipped without the regex, the line "ab\n" is yielded.
C28_Witness ==
    /\ gs.st = "done" /\ gs.pre = [some |-> TRUE, set |-> {<<97>>}]
    /\ gs.pat = Cat(Lit(97), Star(Lit(98))) /\ gs.buf = <<10, 10, 97, 98, 10, 98>>
    /\ gs.matches = << <<2, 5>> >>

\* C29: iter is finite for every buffer and every pattern a searcher is
\* built from: each call of read_match that yields a match resumes the next
\* strictly further on within the buffer, so that the calls end with None
\* after at most as many matches as the buffer has bytes; so for the empty
\* pattern, for empty lines, and for a buffer that ends with or without a
\* terminator.
C29_IterFinite ==
    [][gs.st = "iter" =>
         /\ gs'.st \in {"iter", "done"}
         /\ Len(gs'.matches) <= Len(gs.buf)
         /\ gs'.st = "iter" => gs'.start > gs.start /\ gs'.start <= Len(gs.buf)
         /\ gs.start = Len(gs.buf) => gs'.st = "done"]_vars

\* The empty pattern over "\n\nab\nb": four lines, then None.
C29_Witness ==
    /\ gs.st = "done"
    /\ gs.pat = Empty /\ gs.buf = <<10, 10, 97, 98, 10, 98>>
    /\ Len(gs.matches) = 4 /\ gs.start = 6

(***************************************************************************)
(* Termination of for_each_entry.                                          *)
(***************************************************************************)
\* The underlying stream is finite and every callback returns: no step of
\* for_each_entry that can be taken is put off for ever.
SpecTerminating == Init /\ [][Next]_vars /\ WF_vars(Next)

\* The bytes of the signature and the fixed header of a local file record.
FixedHeader == 30

\* One step of for_each_entry moves the cursor forwards or leaves it, and a
\* step that reads a header through to the callback moves it FixedHeader
\* bytes at least.
CursorAdvances ==
    /\ pos' >= pos
    /\ pc = "sig" /\ pc' = "callback" => pos' >= pos + FixedHeader

\* C31: for_each_entry returns on every finite stream whose callbacks
\* return; the cursor never moves backwards, every turn of the loop that
\* reaches the callback has consumed 30 bytes at least, and so the callback
\* is called at most (bytes consumed) / 30 times.
C31_Terminates ==
    /\ [][CursorAdvances /\ call'.n <= headers' /\ FixedHeader * headers' <= pos']_vars
    /\ <>(pc = "done")

C31_Witness ==
    /\ pc = "done"
    /\ call.n = 2
    /\ pos >= 2 * FixedHeader
    /\ closed


(***************************************************************************)
(* The handle of the non-streaming branch.                                 *)
(***************************************************************************)
\* The count n is no more than the value of the u64 word w.
Within(n, w) == (\E i \in 3..Len(w) : w[i] # 0) \/ n <= Val16(w)

\* The step in which the callback of a non-streaming entry runs.
LimitedCall == pc = "callback" /\ ~Streaming /\ call'.n = call.n + 1

\* C32: in the non-streaming branch the callback's handle takes no more
\* than `compressed` bytes, nor more than the stream holds, from the stream,
\* and the cursor is no further on when the turn ends; for Store the bytes
\* read are the bytes at the cursor, unchanged, and when the callback has
\* read them and returned Continue the turn ends without any error, also
\* when the stream ended before `compressed` bytes.
C32_HandleLimited ==
    [][LimitedCall =>
         /\ Within(call'.consumed, entry.compressed)
         /\ call'.consumed <= Len(rem)
         /\ Within(pos' - pos, entry.compressed)
         /\ entry.method = Good("Store") =>
               /\ call'.consumed = call'.k
               /\ call'.bytes = Slice(rem, 0, call'.k)
               /\ call'.ret = Continue => pc' = "sig" /\ result' = NoResult]_vars

\* A Store entry of 3 bytes in a stream that ends after 2 of them: the
\* callback read the 2 bytes and returned Continue, and the end of the
\* stream was met by the read of the next signature.
C32_Witness ==
    /\ call.n = 1 /\ ~call.streaming
    /\ call.method = Good("Store")
    /\ call.compressed = U64(3)
    /\ call.k = 2 /\ Len(call.bytes) = 2
    /\ call.ret = Continue
    /\ pc = "done" /\ result = IoError("UnexpectedEof")
    /\ pos = call.dataStart + 2


(***************************************************************************)
(* Streaming entries that carry a per-entry error.                         *)
(***************************************************************************)
\* The latest callback was for a streaming entry whose header gave a
\* per-entry error.
StreamingError == call.n > 0 /\ call.streaming /\ ~call.method.ok

\* C33: a streaming entry whose header gives NewerVersionNeeded, Encrypted,
\* Patched or UnknownMethod is handed to the callback once, with that error
\* and not with UnknownDataSize; for_each_entry then returns
\* Err(UnknownDataSize) whichever Action the callback returned, nothing
\* more having been read, so that no later entry is delivered.
C33_StreamingErrorAborts ==
    StreamingError =>
      /\ call.method.kind \in {"NewerVersionNeeded", "Encrypted", "Patched", "UnknownMethod"}
      /\ call.delivered = call.method
      /\ call.n = headers
      /\ pc = "done"
      /\ call.ret \in {Continue, Stop} => result = Err("UnknownDataSize", <<>>)
      /\ pos = call.dataStart
      /\ ~NextSignatureRead

\* An encrypted streaming entry, the callback having returned Continue.
C33_Witness ==
    /\ StreamingError
    /\ call.delivered = Bad("Encrypted", 0)
    /\ call.ret = Continue
    /\ result = Err("UnknownDataSize", <<>>)
    /\ Len(rem) > 0


(***************************************************************************)
(* When for_each_entry returns Ok.                                         *)
(***************************************************************************)
\* The stream has ended and what is left of it at the start of a turn of the
\* loop is nothing, a part of a signature, or a local file header cut short
\* in its fixed part, its name or its extras.
EndsInHeader ==
    /\ pc = "sig" /\ closed
    /\ \/ Len(rem) < 4
       \/ /\ Slice(rem, 0, 4) = LocalSignature
          /\ \/ Len(rem) < 30
             \/ Len(rem) < 30 + Val16(Slice(rem, 26, 2)) + Val16(Slice(rem, 28, 2))

\* C34: for_each_entry returns Ok(()) only in the step that has read a
\* central-directory signature or in which a callback returned Stop; when
\* the stream ends where a signature is due, or inside a header, name or
\* extras, it returns Err(IoError(UnexpectedEof)).
C34_OkOnlyAfterHaltOrStop ==
    [][/\ (pc' = "done" /\ result' = Ok) =>
            \/ /\ Len(sigs') = Len(sigs) + 1
               /\ lastSig' \in CentralDirectorySignatures
            \/ call'.n = call.n + 1 /\ call'.ret = Stop
       /\ EndsInHeader => pc' = "done" /\ result' = IoError("UnexpectedEof")]_vars

\* An entry was delivered and drained, and the stream ended where the next
\* signature was due.
C34_Witness ==
    /\ pc = "done" /\ result = IoError("UnexpectedEof")
    /\ call.n = 1 /\ call.ret = Continue /\ call.drained
    /\ ~NextSignatureRead
    /\ EntryEndsAt(pos)
    /\ rem = <<>>


(***************************************************************************)
(* The fields for_each_entry reads and does not use: time, date, crc32 and *)
(* uncompressed size of the header, crc32 and uncompressed size of the     *)
(* data descriptor.  Two streams that differ in these fields only are      *)
(* compared turn by turn: the stream at the cursor against each of its     *)
(* variants, over every choice the callback and the readers have.          *)
(***************************************************************************)
\* The bytes s with the word v written over them at offset `at`.
Patch(s, at, v) == SubSeq(s, 1, at) \o v \o SubSeq(s, at + Len(v) + 1, Len(s))

\* The values given to a field of four bytes, among them the descriptor's
\* signature and the compressed size of the entries' data; a field of two
\* bytes takes the first half of these, one of eight bytes their widening.
FieldValues ==
    { U32(0), SigDescriptor, <<255, 255, 255, 255>>, U32(Len(StoredBlock(1, Payload))) }

\* The streams that differ from r, which begins with a whole fixed header,
\* in the header's time (offset 10), date (12), crc32 (14) and uncompressed
\* size (22) only.
HeaderVariants(r) ==
    IF Len(r) < 30 \/ Slice(r, 0, 4) # LocalSignature THEN {r}
    ELSE { Patch(Patch(Patch(r, 10, Slice(td, 0, 2) \o Slice(td, 2, 2)), 14, c), 22, u) :
             td \in {U32(0), <<255, 255, 255, 255>>}, c \in FieldValues, u \in FieldValues }

\* What a turn of the loop takes from the header: all of ReadHeader's result
\* but the uncompressed size, which nothing reads afterwards.
HeaderSeen(h) ==
    [h EXCEPT !.e = [@ EXCEPT !.uncompressed = U64(0), !.uncomp32 = U32(0)]]

\* The streams that differ from t, which begins with a whole data
\* descriptor, in the descriptor's crc32 and uncompressed size only; the
\* descriptor has its signature if t begins with it.  crcs: the values the
\* crc32 of a descriptor without signature is given.
DescriptorVariants(t, zip64none, crcs) ==
    LET o == IF Len(t) >= 4 /\ Slice(t, 0, 4) = SigDescriptor THEN 4 ELSE 0
        w == IF zip64none THEN 4 ELSE 8
    IN  IF Len(t) < o + 4 + 2 * w THEN {t}
        ELSE { Patch(Patch(t, o, c), o + 4 + w, IF zip64none THEN u ELSE Widen(u)) :
                 c \in (IF o = 0 THEN crcs ELSE FieldValues), u \in FieldValues }

\* What is seen of the rest of a streaming turn: whether and with what
\* for_each_entry returns and how far the cursor has moved, for each thing
\* the callback may do, d being the data descriptor as read.
TurnOutcomes(d) ==
    LET inf == Decoding
    IN  { <<ret, rd, alt, o.done, o.res, o.n>> :
            <<ret, rd, alt, o>> \in
              { <<ret, rd, alt,
                  StreamingStep(entry.method, ret, rd[2], inf, d, Len(rem), alt)>> :
                  ret \in Returns, alt \in BOOLEAN,
                  rd \in Reads(inf, closed \/ inf.status \in {"end", "corrupt"}) } }

\* The cursor is at a data descriptor: a streaming Deflate entry whose
\* deflate stream is whole.
AtDescriptor ==
    /\ pc = "callback" /\ Streaming
    /\ entry.method = Good("Deflate") /\ Decoding.status = "end"

\* Every variant of the stream at the cursor gives the turn the outcome the
\* stream itself gives it.
FieldsIgnored(crcs) ==
    /\ pc = "sig" =>
          \A v \in HeaderVariants(rem) : HeaderSeen(ReadHeader(v)) = HeaderSeen(ReadHeader(rem))
    /\ AtDescriptor =>
          LET t == Drop(rem, Decoding.used)
              z == ~entry.extra.zip64.some
          IN  \A v \in DescriptorVariants(t, z, crcs) :
                TurnOutcomes(ReadDescriptor(v, z)) = TurnOutcomes(ReadDescriptor(t, z))

\* C35 as stated: the outcome of for_each_entry does not depend on the
\* header's time, date, crc32 and uncompressed size nor on the data
\* descriptor's crc32 and uncompressed size.
C35_UncheckedFieldsIgnored == FieldsIgnored(FieldValues)

\* C35, amended: the outcome does not depend on these fields, except that a
\* data descriptor without signature whose crc32 is 0x08074b50 is read as
\* one with its signature.
C35_FieldsIgnoredButSignature == FieldsIgnored(FieldValues \ {SigDescriptor})

\* The cursor is at the deflate stream of a streaming entry that is followed
\* by a whole data descriptor without signature and by a further record.
C35_Witness ==
    /\ AtDescriptor
    /\ LET t == Drop(rem, Decoding.used)
       IN  /\ Len(t) > 12
           /\ Slice(t, 0, 4) # SigDescriptor
           /\ ReadDescriptor(t, TRUE).st = "ok"
    /\ ~entry.extra.zip64.some


(***************************************************************************)
(* Further claims about MagicReader.                                       *)
(***************************************************************************)
\* C36: in every state of a MagicReader 0 <= pos <= lim <= 4; read never
\* moves pos backwards and changes neither lim nor the peek buffer, so that
\* magic() returns the same value before and after every read.
C36_PeekStable ==
    [][/\ 0 <= mpos' /\ mpos' <= mlim' /\ mlim' <= 4
       /\ mpos' >= mpos
       /\ mstate = "ready" => mlim' = mlim /\ mbuf' = mbuf /\ magic' = magic]_vars

\* A gzip stream read beyond its peeked bytes, in more than one read.
C36_Witness ==
    /\ mstate = "ready" /\ mlim = 4 /\ mpos = 4
    /\ Len(got) > 4 /\ last.len < 4
    /\ magic = "Gzip"

\* C37: when the inner reader fails in a read that has copied peeked bytes,
\* the read returns Ok(count), count the peeked bytes copied, and these bytes
\* alone are handed over; an error is returned by a read only if it began
\* with pos = lim, and then it is the inner reader's error.  In both cases
\* pos is just past the peeked bytes handed over so far.
C37_InnerErrorAfterPeek ==
    [][mstate = "ready" =>
         /\ (faults' = faults + 1 /\ mpos < mlim) =>
               LET count == Min(mlim - mpos, last'.len)
               IN  /\ count >= 1
                   /\ last'.ret = ReadOk(count)
                   /\ got' = got \o Slice(mbuf, mpos, count)
                   /\ mpos' = mpos + count
         /\ ~last'.ret.ok =>
               /\ mpos = mlim /\ faults' = faults + 1
               /\ last'.ret = ilast'
               /\ got' = got /\ mpos' = mpos
         /\ Len(got') >= mpos' /\ Slice(got', 0, mpos') = Slice(mbuf, 0, mpos')]_vars

\* A read into 5 bytes of a reader with 4 peeked bytes of which 1 had been
\* read: the inner reader failed and the read returned the other 3.
C37_Witness ==
    /\ mstate = "ready" /\ mlim = 4 /\ mpos = 4
    /\ last.len = 5 /\ last.ret = ReadOk(3)
    /\ ~ilast.ok /\ faults = 1
    /\ Len(got) = 4

\* C38: MagicReader::new takes min(4, n) bytes from an inner stream of n
\* bytes, however short the reads of the inner reader are, and lim is their
\* number and buf holds them; a read that fails with Interrupted is tried
\* again, a read that returns 0 ends the peeking, and any other error fails
\* the construction.
C38_NewPeeks ==
    [][mstate = "new" =>
         /\ ilast' = ReadErr("Interrupted") =>
               mstate' = "new" /\ mlim' = mlim /\ ipos' = ipos /\ mbuf' = mbuf
         /\ (~ilast'.ok /\ ilast'.err # "Interrupted") => mstate' = "failed"
         /\ ilast' = ReadOk(0) => mstate' = "ready"
         /\ mstate' = "failed" => ~ilast'.ok
         /\ mstate' = "ready" =>
               /\ mlim' = Min(4, Len(src))
               /\ ipos' = mlim'
               /\ Slice(mbuf', 0, mlim') = Slice(src, 0, mlim')
               /\ mpos' = 0]_vars

\* A stream of 6 bytes peeked in more than one read, one read having been
\* interrupted.
C38_Witness ==
    /\ mstate = "ready" /\ last = NoRead
    /\ Len(src) = 6 /\ mlim = 4 /\ ipos = 4
    /\ faults = 1
    /\ ilast = ReadOk(1)


====
